---------------------------- MODULE Spec2Model ----------------------------
(***************************************************************************)
(* Catalog ordering, pagination and slug engine of the movie backend       *)
(* (Controllers/MoviesController.js over Models/MoviesModel.js).           *)
(*                                                                         *)
(* The document store is modelled as the function `movies` from document   *)
(* ids to documents.  Ids are handed out in creation order, so the id also *)
(* stands for the document's createdAt stamp (createdAt values are taken   *)
(* to be pairwise distinct).  A missing orderIndex (null) is the number 0: *)
(* the store sorts null before every number and the handlers read it with  *)
(* `|| 0` / `|| 1`.  Strings that the code transforms (names, slugs) are   *)
(* sequences of one-character strings.                                     *)
(***************************************************************************)
EXTENDS Integers, Sequences, FiniteSets, TLC

VARIABLES
  movies,       \* the Movie collection: id -> document
  res,          \* the response of the last handler that ran: its name and status
  slugEpoch,    \* history: per id, the collection size when SlugAssigner last
                \* assigned the slug the document holds (-1: it did not)
  now,          \* Date.now(), counted in days
  providers,    \* which provider keys the process was started with
  inflight      \* handler calls that run as several steps: call |-> the step it
                \* is at and the local values it carries (a call that has
                \* answered is dropped, or kept at step "done" with its locals)

vars == <<movies, res, slugEpoch, now, providers, inflight>>

(***************************** bounds **************************************)
MaxMovies == 3        \* documents ever created (ids 1..MaxMovies)
MaxLegacy == 2        \* documents present at start without orderIndex and slug

\* REORDER_PAGE_LIMIT is 50 in the source; the page size is scaled down so
\* that catalogs of MaxMovies documents span several pages.
REORDER_PAGE_LIMIT == 2

\* The name and the year of a request that varies neither.
TheName == <<"T">>
TheYear == 2020

Ids == 1..MaxMovies
NoId == 0
NoOrderIndex == 0
NoSlug == <<"<missing>">>
Undefined == "undefined"

(***************************** small helpers *******************************)
Min(a, b) == IF a < b THEN a ELSE b
Max(a, b) == IF a > b THEN a ELSE b
CeilDiv(a, b) == (a + b - 1) \div b
Range(s) == {s[i] : i \in 1..Len(s)}
IsInjective(s) == \A i, j \in 1..Len(s) : s[i] = s[j] => i = j
Perms(S) == {p \in [1..Cardinality(S) -> S] : \A x \in S : \E i \in 1..Cardinality(S) : p[i] = x}
IndexOf(s, x) == CHOOSE i \in 1..Len(s) : s[i] = x
SubSeqFrom(s, skip, limit) == SubSeq(s, skip + 1, Min(Len(s), skip + limit))

\* Lexicographic order on equally long tuples of integers.
RECURSIVE LexLess(_, _)
LexLess(a, b) ==
  IF a = <<>> THEN FALSE
  ELSE IF Head(a) # Head(b) THEN Head(a) < Head(b)
       ELSE LexLess(Tail(a), Tail(b))

\* .sort(...) over the documents S by a key that is unique per document.
SortByKey(S, key) ==
  [i \in 1..Cardinality(S) |->
     CHOOSE x \in S : Cardinality({y \in S : LexLess(key[y], key[x])}) = i - 1]

\* .sort(...) by a key that may leave ties: the store returns documents with
\* equal sort keys in any order, so every order consistent with the key is a
\* possible result.
SortResults(S, key) ==
  {p \in Perms(S) : \A i, j \in 1..Cardinality(S) : i < j => ~LexLess(key[p[j]], key[p[i]])}

(***************************** SlugAssigner ********************************)
IsSpace(c) == c = " "
ToLowerCase(s) == [i \in 1..Len(s) |-> CASE s[i] = "T" -> "t" [] s[i] = "A" -> "a" [] OTHER -> s[i]]
SlugChars == {"a", "t", "0", "1", "2", "3", " ", "-"}

RECURSIVE TrimLeft(_)
TrimLeft(s) == IF s # <<>> /\ IsSpace(Head(s)) THEN TrimLeft(Tail(s)) ELSE s
RECURSIVE TrimRight(_)
TrimRight(s) ==
  IF s # <<>> /\ IsSpace(s[Len(s)]) THEN TrimRight(SubSeq(s, 1, Len(s) - 1)) ELSE s
Trim(s) == TrimRight(TrimLeft(s))

\* .replace(/[^a-z0-9\s\-]/g, '')
StripOther(s) == SelectSeq(s, LAMBDA c : c \in SlugChars)

\* .replace(/\s+/g, '-') and .replace(/-+/g, '-'): a run of c becomes one "-"
RECURSIVE CollapseRuns(_, _)
CollapseRuns(s, c) ==
  IF s = <<>> THEN <<>>
  ELSE IF Head(s) = c
       THEN IF Len(s) > 1 /\ s[2] = c
            THEN CollapseRuns(Tail(s), c)
            ELSE <<"-">> \o CollapseRuns(Tail(s), c)
       ELSE <<Head(s)>> \o CollapseRuns(Tail(s), c)

slugifyNameAndYear(name, year) ==
  IF name = <<>> THEN <<>>
  ELSE CollapseRuns(CollapseRuns(StripOther(Trim(ToLowerCase(Trim(name)))), " "), "-")

\* String(existingId): an ObjectId prints as one opaque hex token
IdString(id) == <<"oid" \o ToString(id)>>

\* Movie.findOne({ slug, _id: { $ne: existingId } }): a document without a slug
\* field never matches
SlugTaken(ms, slug, existingId) ==
  \E m \in DOMAIN ms :
     /\ ms[m].slug = slug
     /\ (existingId # NoId => m # existingId)

RECURSIVE ProbeSlug(_, _, _, _, _)
ProbeSlug(ms, baseSlug, slug, counter, existingId) ==
  IF SlugTaken(ms, slug, existingId)
  THEN ProbeSlug(ms, baseSlug, baseSlug \o <<"-", ToString(counter)>>, counter + 1, existingId)
  ELSE slug

SlugBase(name, year, existingId) ==
  LET s == slugifyNameAndYear(name, year)
  IN IF s # <<>> THEN s
     ELSE IF existingId # NoId THEN IdString(existingId) ELSE <<>>

\* A probe that forgets `_id: { $ne: existingId }`.
generateUniqueSlug_CountingItself(ms, name, year, existingId) ==
  LET baseSlug == SlugBase(name, year, existingId)
  IN ProbeSlug(ms, baseSlug, baseSlug, 2, NoId)

generateUniqueSlug(ms, name, year, existingId) ==
  LET baseSlug == SlugBase(name, year, existingId)
  IN ProbeSlug(ms, baseSlug, baseSlug, 2, existingId)

(***************************** the store ************************************)
\* imdbId: { default: '' }; a missing Date or Number (null) is the number 0
NoImdbId == ""
NoUrl == <<>>
NoDate == 0
NoTmdbId == 0
NoRating == 0

NewDoc(name, year, slug, orderIndex, latest, previousHit, isPublished) ==
  [name |-> name, year |-> year, slug |-> slug, orderIndex |-> orderIndex,
   latest |-> latest, previousHit |-> previousHit, isPublished |-> isPublished,
   imdbId |-> NoImdbId, casts |-> <<>>, tmdbId |-> NoTmdbId,
   tmdbCreditsUpdatedAt |-> NoDate, externalRatingsUpdatedAt |-> NoDate,
   imdbUrl |-> NoUrl, imdbRating |-> NoRating]

\* The id the store gives the next inserted document.
NextId(ms) == Cardinality(DOMAIN ms) + 1

\* slug: { unique: true, sparse: true }: whether writing `slug` on document `id`
\* (NoId: a new document) would break the unique index.
SlugIndexRejects(ms, id, slug) ==
  slug # NoSlug /\ \E m \in DOMAIN ms : m # id /\ ms[m].slug = slug

\* Movie.countDocuments({ $or: [{ orderIndex: { $exists: false } }, { orderIndex: null }] })
MissingOrderIndex(ms) == {m \in DOMAIN ms : ms[m].orderIndex = NoOrderIndex}

(***************************** PaginatedListingAssembler ********************)
\* { latest: -1, orderIndex: 1, createdAt: -1 }
sortLatest(ms) ==
  [m \in DOMAIN ms |-> <<IF ms[m].latest THEN 0 ELSE 1, ms[m].orderIndex, 0 - m>>]
\* { orderIndex: 1, createdAt: -1 }
sortPrevHits(ms) == [m \in DOMAIN ms |-> <<ms[m].orderIndex, 0 - m>>]

\* buildStartsWithRegex: /^term/i on the name; an empty term is no filter
StartsWith(name, term) ==
  LET t == ToLowerCase(Trim(term))
  IN Len(t) <= Len(name) /\ SubSeq(ToLowerCase(name), 1, Len(t)) = t

\* baseFilter of getMoviesAdmin / reorderMoviesInPage: the query's search term
adminBaseFilter(ms, search) ==
  {m \in DOMAIN ms : Trim(search) # <<>> => StartsWith(ms[m].name, search)}
\* A public filter that leaves the visibility filter out.
publicBaseFilter_NoVisibility(ms, search) ==
  {m \in DOMAIN ms : Trim(search) # <<>> => StartsWith(ms[m].name, search)}

\* baseFilter of getMovies: publicVisibilityFilter as well
publicBaseFilter(ms, search) ==
  {m \in adminBaseFilter(ms, search) : ms[m].isPublished}

normalFilter(ms, base) == {m \in base : ~ms[m].previousHit}
prevHitFilter(ms, base) == {m \in base : ms[m].previousHit}

\* A page assembler that skips into the pinned partition by the global offset.
PageDocs_GlobalSkip(ms, base, page) ==
  LET limit == REORDER_PAGE_LIMIT
      skip == (page - 1) * limit
      normalSorted == SortByKey(normalFilter(ms, base), sortLatest(ms))
      prevHitSorted == SortByKey(prevHitFilter(ms, base), sortPrevHits(ms))
      normalCount == Len(normalSorted)
  IN IF skip < normalCount
     THEN LET remainingNormal == normalCount - skip
              takeFromNormal == Min(limit, remainingNormal)
              takeFromPrevHits == limit - takeFromNormal
              normalMovies == SubSeqFrom(normalSorted, skip, takeFromNormal)
          IN IF takeFromPrevHits > 0
             THEN normalMovies \o SubSeqFrom(prevHitSorted, 0, takeFromPrevHits)
             ELSE normalMovies
     ELSE SubSeqFrom(prevHitSorted, skip, limit)

\* A page assembler whose boundary page continues in the pinned partition at
\* the offset it has within the page.
PageDocs_BoundaryOffset(ms, base, page) ==
  LET limit == REORDER_PAGE_LIMIT
      skip == (page - 1) * limit
      normalSorted == SortByKey(normalFilter(ms, base), sortLatest(ms))
      prevHitSorted == SortByKey(prevHitFilter(ms, base), sortPrevHits(ms))
      normalCount == Len(normalSorted)
  IN IF skip < normalCount
     THEN LET remainingNormal == normalCount - skip
              takeFromNormal == Min(limit, remainingNormal)
              takeFromPrevHits == limit - takeFromNormal
              normalMovies == SubSeqFrom(normalSorted, skip, takeFromNormal)
          IN IF takeFromPrevHits > 0
             THEN normalMovies \o SubSeqFrom(prevHitSorted, takeFromNormal, takeFromPrevHits)
             ELSE normalMovies
     ELSE LET adjustedSkip == skip - normalCount
          IN SubSeqFrom(prevHitSorted, adjustedSkip, limit)

\* The documents of one page: the two counts and up to two range queries.
PageDocs(ms, base, page) ==
  LET limit == REORDER_PAGE_LIMIT
      skip == (page - 1) * limit
      normalSorted == SortByKey(normalFilter(ms, base), sortLatest(ms))
      prevHitSorted == SortByKey(prevHitFilter(ms, base), sortPrevHits(ms))
      normalCount == Len(normalSorted)
  IN IF skip < normalCount
     THEN LET remainingNormal == normalCount - skip
              takeFromNormal == Min(limit, remainingNormal)
              takeFromPrevHits == limit - takeFromNormal
              normalMovies == SubSeqFrom(normalSorted, skip, takeFromNormal)
          IN IF takeFromPrevHits > 0
             THEN normalMovies \o SubSeqFrom(prevHitSorted, 0, takeFromPrevHits)
             ELSE normalMovies
     ELSE LET adjustedSkip == skip - normalCount
          IN SubSeqFrom(prevHitSorted, adjustedSkip, limit)

\* A page count without the `|| 1`.
TotalPages_CeilOnly(totalCount) == CeilDiv(totalCount, REORDER_PAGE_LIMIT)

\* Math.ceil(totalCount / limit) || 1
TotalPages(totalCount) == Max(1, CeilDiv(totalCount, REORDER_PAGE_LIMIT))

(***************************** responses ***********************************)
\* What a handler answers: its name and the HTTP status.
Response(op, status) == [op |-> op, status |-> status]

\* What a handler leaves behind: the collection, the response, and the number
\* of bulk writes it issued.
Outcome(ms, response, writes) == [movies |-> ms, res |-> response, writes |-> writes]

(***************************** getMovieById / getMovieByIdAdmin ************)
\* `!movie.slug`: the field is missing or the empty string
NoUsableSlug(movie) == movie.slug = NoSlug \/ movie.slug = <<>>

\* The detail read: a document without slug gets one, and the document is saved.
DetailRead(ms, id, op) ==
  LET movie == ms[id]
      slug == IF NoUsableSlug(movie)
              THEN generateUniqueSlug(ms, movie.name, movie.year, id)
              ELSE movie.slug
  IN Outcome([ms EXCEPT ![id].slug = slug], Response(op, 200), 1)

getMovieByIdResult(ms, id) ==
  IF id \notin DOMAIN ms \/ ~ms[id].isPublished
  THEN Outcome(ms, Response("getMovieById", 404), 0)
  ELSE DetailRead(ms, id, "getMovieById")

getMovieByIdAdminResult(ms, id) ==
  IF id \notin DOMAIN ms
  THEN Outcome(ms, Response("getMovieByIdAdmin", 404), 0)
  ELSE DetailRead(ms, id, "getMovieByIdAdmin")

(***************************** provider caches *****************************)
\* TMDB_CREDITS_TTL_DAYS is 30 and TTL_DAYS is 7 in the source; both are scaled
\* down so that a cache entry goes stale within MaxClock days.
TMDB_CREDITS_TTL_DAYS == 2
TTL_DAYS == 1
MaxClock == 4

\* isTmdbEnabled() and OMDB_API_KEY: fixed when the process starts
NoProviders == [tmdb |-> FALSE, omdb |-> FALSE]

\* imdbUrlFromId: `https://www.imdb.com/title/${imdbId}/`, or '' without an id
imdbUrlFromId(imdbId) ==
  IF imdbId = NoImdbId THEN NoUrl ELSE <<"https://www.imdb.com/title/", imdbId, "/">>

\* The ids that /title\/(tt\d{5,10})/i matches whole.
TitleIds == {"tt0000001", "tt0000002"}
\* An id an admin typed that the pattern does not match.
MalformedIds == {"1"}

\* extractImdbIdFromUrl: the id the pattern finds in the url, or ''
extractImdbIdFromUrl(url) ==
  IF url = NoUrl THEN NoImdbId
  ELSE IF url[2] \in TitleIds THEN url[2] ELSE NoImdbId

\* shouldRefresh of externalRatingsService, asked at time t
shouldRefresh(movieDoc, t) ==
  LET ts == movieDoc.externalRatingsUpdatedAt
      stored == extractImdbIdFromUrl(movieDoc.imdbUrl)
  IN IF movieDoc.imdbId # NoImdbId /\ (stored = NoImdbId \/ stored # movieDoc.imdbId)
     THEN TRUE
     ELSE IF ts = NoDate THEN TRUE
     ELSE t - ts > TTL_DAYS

\* shouldRefreshTmdbCredits, asked at time t
shouldRefreshTmdbCredits(movieDoc, t) ==
  LET hasCasts == Len(movieDoc.casts) > 0
      ts == movieDoc.tmdbCreditsUpdatedAt
  IN IF ~hasCasts THEN TRUE
     ELSE IF ts = NoDate THEN TRUE
     ELSE t - ts > TMDB_CREDITS_TTL_DAYS

\* What fetchTmdbCreditsForMovie can come back with: no match or an error, a
\* match with a cast list, a match without one.
NoAnswer == [found |-> FALSE, tmdbId |-> NoTmdbId, casts |-> <<>>,
             imdbID |-> NoImdbId, imdbRating |-> NoRating]
TmdbMatch(casts) == [NoAnswer EXCEPT !.found = TRUE, !.tmdbId = 7, !.casts = casts]
TmdbAnswers(enabled) ==
  IF enabled THEN {NoAnswer, TmdbMatch(<<"actor">>), TmdbMatch(<<>>)} ELSE {NoAnswer}

\* What the OMDb lookups can come back with: nothing (not found, timeout), or
\* the entry of the id asked for; a lookup by title finds an entry with or
\* without an id; a malformed id finds nothing.  The rating can be "N/A".
OmdbMatch(imdbID, imdbRating) ==
  [NoAnswer EXCEPT !.found = TRUE, !.imdbID = imdbID, !.imdbRating = imdbRating]
OmdbAnswers(enabled, imdbId) ==
  IF ~enabled THEN {NoAnswer}
  ELSE {NoAnswer} \cup
       {OmdbMatch(imdbID, imdbRating) :
          imdbID \in (IF imdbId = NoImdbId THEN {NoImdbId, "tt0000002"}
                      ELSE {imdbId} \cap TitleIds),
          imdbRating \in {NoRating, 8}}

\* What a refresh leaves: the document and the number of provider lookups made.
Refreshed(movieDoc, calls) == [doc |-> movieDoc, calls |-> calls]

ensureMovieTmdbCredits(movieDoc, t, enabled, force, answer) ==
  IF ~enabled THEN Refreshed(movieDoc, 0)
  ELSE IF ~force /\ ~shouldRefreshTmdbCredits(movieDoc, t) THEN Refreshed(movieDoc, 0)
  ELSE LET stamped == [movieDoc EXCEPT !.tmdbCreditsUpdatedAt = t]
       IN IF ~answer.found \/ answer.tmdbId = NoTmdbId
          THEN Refreshed(stamped, 1)
          ELSE Refreshed([stamped EXCEPT !.tmdbId = answer.tmdbId,
                                         !.casts = IF Len(answer.casts) > 0
                                                   THEN answer.casts ELSE @], 1)

ensureMovieExternalRatings(movieDoc, t, enabled, answer) ==
  IF ~enabled THEN Refreshed(movieDoc, 0)
  ELSE IF ~shouldRefresh(movieDoc, t) THEN Refreshed(movieDoc, 0)
  ELSE IF ~answer.found
       THEN Refreshed([movieDoc EXCEPT
                         !.externalRatingsUpdatedAt = t,
                         !.imdbRating = IF movieDoc.imdbId # NoImdbId THEN NoRating ELSE @,
                         !.imdbUrl = IF movieDoc.imdbId # NoImdbId
                                     THEN imdbUrlFromId(movieDoc.imdbId) ELSE @], 1)
       ELSE LET resolvedImdbId == IF answer.imdbID # NoImdbId THEN answer.imdbID
                                  ELSE movieDoc.imdbId
                imdbId == IF movieDoc.imdbId # NoImdbId THEN movieDoc.imdbId
                          ELSE resolvedImdbId
            IN Refreshed([movieDoc EXCEPT
                            !.imdbId = imdbId,
                            !.imdbRating = answer.imdbRating,
                            !.imdbUrl = imdbUrlFromId(IF resolvedImdbId # NoImdbId
                                                      THEN resolvedImdbId ELSE imdbId),
                            !.externalRatingsUpdatedAt = t], 1)

\* getMovieById / getMovieByIdAdmin: ratings first, then credits
RefreshOnRead(movieDoc, t, keys, omdb, tmdb) ==
  LET ratings == ensureMovieExternalRatings(movieDoc, t, keys.omdb, omdb)
      credits == ensureMovieTmdbCredits(ratings.doc, t, keys.tmdb, FALSE, tmdb)
  IN Refreshed(credits.doc, ratings.calls + credits.calls)

\* updateMovie: ratings when the identity changed, credits always (forced when
\* the identity changed)
RefreshOnUpdate(movieDoc, t, keys, identityChanged, omdb, tmdb) ==
  LET ratings == IF identityChanged
                 THEN ensureMovieExternalRatings(movieDoc, t, keys.omdb, omdb)
                 ELSE Refreshed(movieDoc, 0)
      credits == ensureMovieTmdbCredits(ratings.doc, t, keys.tmdb, identityChanged, tmdb)
  IN Refreshed(credits.doc, ratings.calls + credits.calls)

\* createMovie: the credits are fetched before the document is first saved
CreationCredits(movieDoc, t, enabled, tmdb) ==
  [movieDoc EXCEPT
     !.tmdbCreditsUpdatedAt = IF enabled THEN t ELSE @,
     !.tmdbId = IF tmdb.found /\ tmdb.tmdbId # NoTmdbId THEN tmdb.tmdbId ELSE @,
     !.casts = tmdb.casts]

(***************************** initial catalog *****************************)
\* Documents stored before orderIndex and slug existed (or imported raw by
\* importMovies) have neither field.
LegacyKinds == {"normal", "latest", "previousHit"}
LegacyDoc(kind) ==
  NewDoc(TheName, TheYear, NoSlug, NoOrderIndex, kind = "latest", kind = "previousHit", TRUE)
LegacyCatalogs ==
  UNION {{[m \in 1..k |-> LegacyDoc(kinds[m])] : kinds \in [1..k -> LegacyKinds]}
         : k \in 0..MaxLegacy}

\* A legacy catalog whose documents were each read once (getMovieByIdAdmin
\* gives a document without slug its slug) but never reordered.
RECURSIVE ReadOnce(_, _)
ReadOnce(ms, n) ==
  IF n = 0 THEN ms
  ELSE getMovieByIdAdminResult(ReadOnce(ms, n - 1), n).movies

InitLegacy ==
  /\ movies \in LegacyCatalogs
  /\ res = Response("init", 0)
  /\ slugEpoch = [m \in DOMAIN movies |-> 0 - 1]
  /\ now = 1
  /\ providers = NoProviders
  /\ inflight = <<>>

Init ==
  /\ movies \in {ReadOnce(ms, Cardinality(DOMAIN ms)) : ms \in LegacyCatalogs}
  /\ res = Response("init", 0)
  /\ slugEpoch = [m \in DOMAIN movies |-> m]
  /\ now = 1
  /\ providers = NoProviders
  /\ inflight = <<>>

(***************************** listing handlers ****************************)
getMoviesResult(ms, search, page) ==
  LET base == publicBaseFilter(ms, search)
  IN [movies |-> PageDocs(ms, base, page), page |-> page,
      pages |-> TotalPages(Cardinality(base)), totalMovies |-> Cardinality(base)]

getMoviesAdminResult(ms, search, page) ==
  LET base == adminBaseFilter(ms, search)
  IN [movies |-> PageDocs(ms, base, page), page |-> page,
      pages |-> TotalPages(Cardinality(base)), totalMovies |-> Cardinality(base)]

\* Number(req.query.pageNumber) || 1: zero (and a missing number) is page 1
PageOf(pageNumber) == IF pageNumber = 0 THEN 1 ELSE pageNumber

\* What a listing answers with status 200, and the answer of the catch block
\* (status 400, a message and no listing).
Listed(answer) == [status |-> 200, movies |-> answer.movies, page |-> answer.page,
                   pages |-> answer.pages, totalMovies |-> answer.totalMovies]
ListingError == [status |-> 400]

\* The whole handler: with a negative page number, skip is negative, the first
\* branch is taken and the store rejects .skip(skip) (skip must be
\* non-negative); the catch block answers 400.
getMoviesResponse(ms, search, pageNumber) ==
  IF (PageOf(pageNumber) - 1) * REORDER_PAGE_LIMIT < 0 THEN ListingError
  ELSE Listed(getMoviesResult(ms, search, PageOf(pageNumber)))

getMoviesAdminResponse(ms, search, pageNumber) ==
  IF (PageOf(pageNumber) - 1) * REORDER_PAGE_LIMIT < 0 THEN ListingError
  ELSE Listed(getMoviesAdminResult(ms, search, PageOf(pageNumber)))

getMovies(search, page) ==
  /\ res' = Response("getMovies", getMoviesResponse(movies, search, page).status)
  /\ UNCHANGED <<movies, slugEpoch, now, providers, inflight>>

getMoviesAdmin(search, page) ==
  /\ res' = Response("getMoviesAdmin", getMoviesAdminResponse(movies, search, page).status)
  /\ UNCHANGED <<movies, slugEpoch, now, providers, inflight>>

(***************************** createMovie *********************************)
\* findOne(filter).sort({ orderIndex: -1 }) / .sort({ orderIndex: 1 }): the
\* orderIndex of the document found, or 0 when there is none (`?.orderIndex || 0`)
MaxOrderIndex(ms, S) ==
  IF S = {} THEN 0 ELSE CHOOSE v \in {ms[m].orderIndex : m \in S} :
                          \A m \in S : ms[m].orderIndex <= v
MinOrderIndex(ms, S) ==
  IF S = {} THEN 0 ELSE CHOOSE v \in {ms[m].orderIndex : m \in S} :
                          \A m \in S : ms[m].orderIndex >= v

InitialOrderIndex(ms, latest, previousHit) ==
  LET prevHits == {m \in DOMAIN ms : ms[m].previousHit}
      normals == {m \in DOMAIN ms : ~ms[m].previousHit}
  IN IF previousHit
     THEN IF prevHits # {}
          THEN MaxOrderIndex(ms, prevHits) + 1
          ELSE MaxOrderIndex(ms, DOMAIN ms) + 1
     ELSE IF latest
          THEN (IF MinOrderIndex(ms, normals) = 0 THEN 1 ELSE MinOrderIndex(ms, normals))
          ELSE MaxOrderIndex(ms, normals) + 1

Insert(ms, doc) == [m \in DOMAIN ms \cup {NextId(ms)} |->
                      IF m \in DOMAIN ms THEN ms[m] ELSE doc]

createMovieResult(ms, name, year, latest, previousHit, isPublished) ==
  IF name = <<>> \/ (latest /\ previousHit)
  THEN Outcome(ms, Response("createMovie", 400), 0)
  ELSE LET newOrderIndex == InitialOrderIndex(ms, latest, previousHit)
           slug == generateUniqueSlug(ms, name, year, NoId)
           doc == NewDoc(name, year, slug, newOrderIndex, latest, previousHit, isPublished)
       IN IF SlugIndexRejects(ms, NoId, slug)
          THEN Outcome(ms, Response("createMovie", 400), 0)
          ELSE Outcome(Insert(ms, doc), Response("createMovie", 201), 1)

\* slugEpoch after a handler: documents it gave a slug get the collection size
\* at the probe, the others keep theirs.
Stamp(epoch, ms, assigned, size) ==
  [m \in DOMAIN ms |-> IF m \in assigned THEN size
                       ELSE IF m \in DOMAIN epoch THEN epoch[m] ELSE 0 - 1]

createMovie(name, year, latest, previousHit, isPublished) ==
  /\ Cardinality(DOMAIN movies) < MaxMovies
  /\ \E tmdb \in TmdbAnswers(providers.tmdb) :
       LET out == createMovieResult(movies, name, year, latest, previousHit, isPublished)
           created == DOMAIN out.movies \ DOMAIN movies
       IN /\ movies' = [m \in DOMAIN out.movies |->
                          IF m \in created
                          THEN CreationCredits(out.movies[m], now, providers.tmdb, tmdb)
                          ELSE out.movies[m]]
          /\ res' = out.res
          /\ slugEpoch' = Stamp(slugEpoch, out.movies, created, Cardinality(DOMAIN movies))
          /\ UNCHANGED <<now, providers, inflight>>

(***************************** updateMovie *********************************)
\* A flag of the request body is "undefined", "true" or "false".
\* `x !== undefined ? !!x : old`
Given(x, old) == IF x = Undefined THEN old ELSE x = "true"
\* `name || movie.name`: an absent name is the empty name
OrElse(x, old) == IF x = <<>> THEN old ELSE x
\* `year || movie.year`: an absent year is 0
YearOrElse(x, old) == IF x = 0 THEN old ELSE x

\* Recompute slug if name or year changed, or slug missing
SlugRegenerated(movie, newName, newYear) ==
  \/ NoUsableSlug(movie)
  \/ newName # movie.name
  \/ newYear # movie.year

\* identityChanged: type, name, year or imdbId differ from the stored ones
IdentityChanged(movie, newName, newYear) ==
  newName # movie.name \/ newYear # movie.year

updateMovieResult(ms, id, name, year, latest, previousHit, isPublished) ==
  IF id \notin DOMAIN ms \/ (latest = "true" /\ previousHit = "true")
  THEN Outcome(ms, Response("updateMovie", 400), 0)
  ELSE LET movie == ms[id]
           newName == OrElse(name, movie.name)
           newYear == YearOrElse(year, movie.year)
           newSlug == IF SlugRegenerated(movie, newName, newYear)
                      THEN generateUniqueSlug(ms, newName, newYear, id)
                      ELSE movie.slug
       IN IF SlugIndexRejects(ms, id, newSlug)
          THEN Outcome(ms, Response("updateMovie", 400), 0)
          ELSE Outcome([ms EXCEPT ![id] =
                          [movie EXCEPT !.name = newName, !.year = newYear,
                                        !.slug = newSlug,
                                        !.latest = Given(latest, movie.latest),
                                        !.previousHit = Given(previousHit, movie.previousHit),
                                        !.isPublished = Given(isPublished, movie.isPublished),
                                        !.tmdbCreditsUpdatedAt =
                                           IF IdentityChanged(movie, newName, newYear)
                                           THEN NoDate ELSE @,
                                        !.tmdbId =
                                           IF IdentityChanged(movie, newName, newYear)
                                           THEN NoTmdbId ELSE @,
                                        !.externalRatingsUpdatedAt =
                                           IF IdentityChanged(movie, newName, newYear)
                                           THEN NoDate ELSE @,
                                        !.imdbUrl =
                                           IF IdentityChanged(movie, newName, newYear)
                                           THEN NoUrl ELSE @,
                                        !.imdbRating =
                                           IF IdentityChanged(movie, newName, newYear)
                                           THEN NoRating ELSE @]],
                       Response("updateMovie", 201), 1)

updateMovie(id, name, year, latest, previousHit, isPublished) ==
  LET out == updateMovieResult(movies, id, name, year, latest, previousHit, isPublished)
      regenerated == out.res.status = 201
                     /\ SlugRegenerated(movies[id], out.movies[id].name, out.movies[id].year)
      saved == out.res.status = 201
      identityChanged == saved /\ IdentityChanged(movies[id], out.movies[id].name,
                                                   out.movies[id].year)
  IN \E omdb \in OmdbAnswers(saved /\ providers.omdb, IF saved THEN movies[id].imdbId ELSE NoImdbId),
        tmdb \in TmdbAnswers(saved /\ providers.tmdb) :
        /\ movies' = IF saved
                     THEN [out.movies EXCEPT ![id] =
                             RefreshOnUpdate(@, now, providers, identityChanged, omdb, tmdb).doc]
                     ELSE out.movies
        /\ res' = out.res
        /\ slugEpoch' = Stamp(slugEpoch, out.movies, IF regenerated THEN {id} ELSE {},
                              Cardinality(DOMAIN movies))
        /\ UNCHANGED <<now, providers, inflight>>

(***************************** ensureOrderIndexes **************************)
\* { latest: -1, previousHit: 1, createdAt: -1 }
sortRepair(ms) ==
  [m \in DOMAIN ms |->
     <<IF ms[m].latest THEN 0 ELSE 1, IF ms[m].previousHit THEN 1 ELSE 0, 0 - m>>]

\* update: { $set: { orderIndex: idx + 1 } } for the documents of `order`
SetOrderIndexes(ms, order) ==
  [m \in DOMAIN ms |->
     IF m \in Range(order) THEN [ms[m] EXCEPT !.orderIndex = IndexOf(order, m)] ELSE ms[m]]

ensureOrderIndexes(ms) ==
  IF MissingOrderIndex(ms) = {} THEN ms
  ELSE SetOrderIndexes(ms, SortByKey(DOMAIN ms, sortRepair(ms)))

\* The bulk writes ensureOrderIndexes issues: one when a document lacks orderIndex.
ensureOrderIndexesWrites(ms) == IF MissingOrderIndex(ms) = {} THEN 0 ELSE 1

(***************************** reorderMoviesInPage *************************)
\* .sort((a, b) => a - b) of the page's orderIndex values, duplicates kept
SortNumbers(values) ==
  LET order == SortByKey(1..Len(values), [i \in 1..Len(values) |-> <<values[i], i>>])
  IN [i \in 1..Len(values) |-> values[order[i]]]

\* The first validation that fails, or "ok": orderedIds against the page ids.
ReorderValidation(ms, ordered, page, search) ==
  LET base == adminBaseFilter(ms, search)
      skip == (page - 1) * REORDER_PAGE_LIMIT
      pageDocs == PageDocs(ms, base, page)
  IN IF skip >= Cardinality(base) \/ pageDocs = <<>> THEN "Page number out of range"
     ELSE IF \/ Len(ordered) # Len(pageDocs)
             \/ \E i \in 1..Len(ordered) : ordered[i] \notin Range(pageDocs)
             \/ \E i \in 1..Len(pageDocs) : pageDocs[i] \notin Range(ordered)
          THEN "orderedIds must contain exactly the IDs of this page"
          ELSE "ok"

\* A reorder that, like a move to page 1, also promotes what it places.
ApplyReorder_Promoting(ms, ordered, pageDocs) ==
  LET slotOrderIndexes == SortNumbers([i \in 1..Len(pageDocs) |-> ms[pageDocs[i]].orderIndex])
  IN [m \in DOMAIN ms |->
        IF m \in Range(ordered)
        THEN [ms[m] EXCEPT !.orderIndex = slotOrderIndexes[IndexOf(ordered, m)],
                           !.latest = TRUE, !.previousHit = FALSE]
        ELSE ms[m]]

\* A reorder that would number the page's items afresh, from the page's offset.
ApplyReorder_Renumbering(ms, ordered, pageDocs) ==
  LET first == Cardinality({m \in DOMAIN ms :
                              ms[m].orderIndex < ms[pageDocs[1]].orderIndex})
  IN [m \in DOMAIN ms |->
        IF m \in Range(ordered)
        THEN [ms[m] EXCEPT !.orderIndex = first + IndexOf(ordered, m)]
        ELSE ms[m]]

\* The bulk write of the reorder: the page's orderIndex values, ascending, go to
\* orderedIds in the order given.
ApplyReorder(ms, ordered, pageDocs) ==
  LET slotOrderIndexes == SortNumbers([i \in 1..Len(pageDocs) |-> ms[pageDocs[i]].orderIndex])
  IN [m \in DOMAIN ms |->
        IF m \in Range(ordered)
        THEN [ms[m] EXCEPT !.orderIndex = slotOrderIndexes[IndexOf(ordered, m)]]
        ELSE ms[m]]

reorderMoviesInPageResult(ms, pageNumber, orderedIds, search) ==
  LET page == Max(1, pageNumber)
      rejected == Response("reorderMoviesInPage", 400)
  IN IF orderedIds = <<>> \/ ~IsInjective(orderedIds)
     THEN Outcome(ms, rejected, 0)
     ELSE LET repaired == ensureOrderIndexes(ms)
              repairs == ensureOrderIndexesWrites(ms)
              pageDocs == PageDocs(repaired, adminBaseFilter(repaired, search), page)
          IN IF ReorderValidation(repaired, orderedIds, page, search) # "ok"
             THEN Outcome(repaired, rejected, repairs)
             ELSE Outcome(ApplyReorder(repaired, orderedIds, pageDocs),
                          Response("reorderMoviesInPage", 200), repairs + 1)

reorderMoviesInPage(pageNumber, orderedIds, search) ==
  LET out == reorderMoviesInPageResult(movies, pageNumber, orderedIds, search)
  IN /\ movies' = out.movies
     /\ res' = out.res
     /\ UNCHANGED <<slugEpoch, now, providers, inflight>>

(***************************** moveMoviesToPage ****************************)
\* { latest: -1, previousHit: 1, orderIndex: 1 }: no createdAt, so documents
\* that agree on the three fields come back in any order
sortMove(ms) ==
  [m \in DOMAIN ms |->
     <<IF ms[m].latest THEN 0 ELSE 1, IF ms[m].previousHit THEN 1 ELSE 0, ms[m].orderIndex>>]

\* The clamped target page.
ClampPage(page, total) ==
  LET maxPage == Max(1, CeilDiv(total, REORDER_PAGE_LIMIT))
  IN IF page < 1 THEN 1 ELSE IF page > maxPage THEN maxPage ELSE page

\* A move that would put the moved documents behind all others.
NewOrder_Appending(moved, remaining, page) == remaining \o moved

\* newOrder: moved spliced into remaining at the target page's first position.
NewOrder(moved, remaining, page) ==
  LET insertIndex == Min((page - 1) * REORDER_PAGE_LIMIT, Len(remaining))
  IN SubSeq(remaining, 1, insertIndex) \o moved
       \o SubSeq(remaining, insertIndex + 1, Len(remaining))

\* The bulk write of the move: orderIndex = position + 1 for every document, and
\* on page 1 the moved documents become latest and stop being previousHit.
ApplyMove(ms, newOrder, moved, page) ==
  [m \in DOMAIN ms |->
     LET renumbered == [ms[m] EXCEPT !.orderIndex = IndexOf(newOrder, m)]
     IN IF m \in Range(moved) /\ page = 1
        THEN [renumbered EXCEPT !.previousHit = FALSE, !.latest = TRUE]
        ELSE renumbered]

\* One outcome per order the store may return for the move's query.
moveMoviesToPageResults(ms, targetPage, movieIds) ==
  LET rejected == Response("moveMoviesToPage", 400)
      requested == IF targetPage = 0 THEN 1 ELSE targetPage
  IN IF movieIds = {}
     THEN {Outcome(ms, rejected, 0)}
     ELSE LET repaired == ensureOrderIndexes(ms)
              repairs == ensureOrderIndexesWrites(ms)
          IN IF movieIds \cap DOMAIN ms = {}
             THEN {Outcome(repaired, Response("moveMoviesToPage", 404), repairs)}
             ELSE {LET moved == SelectSeq(allMovies, LAMBDA m : m \in movieIds)
                       remaining == SelectSeq(allMovies, LAMBDA m : m \notin movieIds)
                       total == Len(remaining) + Len(moved)
                       page == ClampPage(requested, total)
                       newOrder == NewOrder(moved, remaining, page)
                   IN [movies |-> ApplyMove(repaired, newOrder, moved, page),
                       res |-> Response("moveMoviesToPage", 200),
                       writes |-> repairs + 1, targetPage |-> page, moved |-> moved]
                   : allMovies \in SortResults(DOMAIN repaired, sortMove(repaired))}

moveMoviesToPage(targetPage, movieIds) ==
  \E out \in moveMoviesToPageResults(movies, targetPage, movieIds) :
     /\ movies' = out.movies
     /\ res' = out.res
     /\ UNCHANGED <<slugEpoch, now, providers, inflight>>

(***************************** specifications ******************************)
FlagInputs == {Undefined, "true", "false"}
MaxPage == CeilDiv(MaxMovies, REORDER_PAGE_LIMIT)
\* orderedIds: every list of up to REORDER_PAGE_LIMIT ids, repeats included
OrderedIdsInputs == UNION {[1..n -> Ids] : n \in 0..REORDER_PAGE_LIMIT}

\* PageReorderer and PagesMover at work on a catalog whose flags change.
Next ==
  \/ \E latest, previousHit \in BOOLEAN :
        createMovie(TheName, TheYear, latest, previousHit, TRUE)
  \/ \E id \in Ids : \E latest, previousHit \in FlagInputs :
        updateMovie(id, <<>>, 0, latest, previousHit, Undefined)
  \/ \E page \in 1..(MaxPage + 1) : \E orderedIds \in OrderedIdsInputs :
        reorderMoviesInPage(page, orderedIds, <<>>)
  \/ \E targetPage \in 0..(MaxPage + 1) : \E movieIds \in SUBSET Ids :
        moveMoviesToPage(targetPage, movieIds)

Spec == Init /\ [][Next]_vars

(***************************** the admin listing, whole *********************)
\* Page `page` of GET /api/movies/admin without a filter.
AdminPage(ms, page) == getMoviesAdminResult(ms, <<>>, page).movies

RECURSIVE ConcatPages(_, _, _)
ConcatPages(ms, page, last) ==
  IF page > last THEN <<>>
  ELSE AdminPage(ms, page) \o ConcatPages(ms, page + 1, last)

\* All pages of the admin listing, one after the other.
FullAdminListing(ms) ==
  ConcatPages(ms, 1, getMoviesAdminResult(ms, <<>>, 1).pages)

\* Whether a comes before b in the sequence s (both occur in it).
Precedes(s, a, b) == IndexOf(s, a) < IndexOf(s, b)

ReorderPages == 1..(MaxPage + 1)
MovePages == 0..(MaxPage + 1)

(***************************** C2 ******************************************)
\* The frame of a reorder of `page` with `orderedIds`: no document outside the
\* page changes its orderIndex, and no other field of any document changes.
ReorderFrame(ms, page, orderedIds) ==
  LET out == reorderMoviesInPageResult(ms, page, orderedIds, <<>>)
      onPage == Range(AdminPage(ms, page))
  IN (out.res.status = 200 /\ Range(orderedIds) = onPage) =>
       /\ DOMAIN out.movies = DOMAIN ms
       /\ \A m \in DOMAIN ms :
            /\ m \notin onPage => out.movies[m].orderIndex = ms[m].orderIndex
            /\ [out.movies[m] EXCEPT !.orderIndex = 0] = [ms[m] EXCEPT !.orderIndex = 0]

InvalidOrderedIds(ms, page, orderedIds) ==
  LET onPage == AdminPage(ms, page)
  IN \/ ~IsInjective(orderedIds)
     \/ Range(orderedIds) # Range(onPage)
     \/ Len(orderedIds) # Len(onPage)

\* C3 as claimed: a reorder whose orderedIds has a duplicate, a foreign id, a
\* missing id or a wrong length is rejected with 400 and writes nothing, in
\* every reachable catalog, legacy items without orderIndex included.
C3_ReorderRejection ==
  \A page \in ReorderPages : \A orderedIds \in OrderedIdsInputs :
     InvalidOrderedIds(movies, page, orderedIds) =>
       LET out == reorderMoviesInPageResult(movies, page, orderedIds, <<>>)
       IN out.res.status = 400 /\ out.movies = movies /\ out.writes = 0

(***************************** C4 ******************************************)
\* C4 as claimed (on catalogs whose items all hold an orderIndex): after a
\* successful reorder of page P every other page lists the same items in the
\* same order, and page P holds the same set of items.
C4_ReorderKeepsOtherPages ==
  MissingOrderIndex(movies) = {} =>
    \A page \in ReorderPages : \A orderedIds \in OrderedIdsInputs :
       LET out == reorderMoviesInPageResult(movies, page, orderedIds, <<>>)
       IN out.res.status = 200 =>
            /\ \A q \in ReorderPages \ {page} :
                  AdminPage(out.movies, q) = AdminPage(movies, q)
            /\ Range(AdminPage(out.movies, page)) = Range(AdminPage(movies, page))

(***************************** C5 ******************************************)
\* All-or-nothing: a rejected call wrote nothing, an accepted one wrote once.
AllOrNothing(ms, out) ==
  /\ out.res.status \in {400, 404} => out.writes = 0 /\ out.movies = ms
  /\ out.res.status = 200 => out.writes = 1

\* C5 as claimed: a reorder or move that fails validation performs zero writes,
\* and one that passes validation performs exactly one bulk write.
C5_AllOrNothing ==
  /\ \A page \in ReorderPages : \A orderedIds \in OrderedIdsInputs :
        AllOrNothing(movies, reorderMoviesInPageResult(movies, page, orderedIds, <<>>))
  /\ \A targetPage \in MovePages : \A movieIds \in SUBSET Ids :
        \A out \in moveMoviesToPageResults(movies, targetPage, movieIds) :
           AllOrNothing(movies, out)

(***************************** C6 ******************************************)
\* C6 as claimed (for the move of one existing id, on catalogs whose items all
\* hold an orderIndex): after a successful move every moved item is on the
\* (clamped) target page of the admin listing, whatever the flags of the moved
\* and the remaining items.
C6_MovedItemsOnTargetPage ==
  MissingOrderIndex(movies) = {} =>
  \A targetPage \in MovePages : \A movieIds \in SUBSET Ids :
     Cardinality(movieIds \cap DOMAIN movies) = 1 =>
       \A out \in moveMoviesToPageResults(movies, targetPage, movieIds) :
          out.res.status = 200 =>
            Range(out.moved) \subseteq Range(AdminPage(out.movies, out.targetPage))

(***************************** C7 ******************************************)
\* The moved items lead the normal partition of the listing, in the order they
\* had in the listing before.
MovedLeadListing(before, after, moved) ==
  LET listing == FullAdminListing(after)
      was == FullAdminListing(before)
  IN /\ \A i \in 1..Len(moved) : listing[i] \in Range(moved)
     /\ \A a, b \in Range(moved) : Precedes(was, a, b) => Precedes(listing, a, b)

\* C7 as claimed (on catalogs whose items all hold an orderIndex): after a
\* successful move to page 1 every moved item is latest and not previousHit, and
\* the moved items are the first items of the normal partition in their
\* previous relative order, ahead of every other item.
C7_MoveToFrontPage ==
  MissingOrderIndex(movies) = {} =>
  \A targetPage \in MovePages : \A movieIds \in SUBSET Ids :
     \A out \in moveMoviesToPageResults(movies, targetPage, movieIds) :
        (out.res.status = 200 /\ out.targetPage = 1) =>
          /\ \A m \in Range(out.moved) :
                out.movies[m].latest /\ ~out.movies[m].previousHit
          /\ MovedLeadListing(movies, out.movies, out.moved)

\* The part of C7 the code keeps: flags set, moved items ahead of all others.
C7_FlagsAndFront ==
  \A targetPage \in MovePages : \A movieIds \in SUBSET Ids :
     \A out \in moveMoviesToPageResults(movies, targetPage, movieIds) :
        (out.res.status = 200 /\ out.targetPage = 1) =>
          /\ \A m \in Range(out.moved) :
                out.movies[m].latest /\ ~out.movies[m].previousHit
          /\ \A i \in 1..Len(out.moved) :
                FullAdminListing(out.movies)[i] \in Range(out.moved)

(***************************** bulkCreateMovies ****************************)
\* One element of the request's "movies" array; an empty name stands for a
\* missing required field.
BulkItem(name, year, latest, previousHit, isPublished) ==
  [name |-> name, year |-> year, latest |-> latest, previousHit |-> previousHit,
   isPublished |-> isPublished]

\* docsToInsert: each valid item takes the next orderIndex and a slug probed
\* against the store as it is before the insert.
RECURSIVE DocsToInsert(_, _, _)
DocsToInsert(ms, items, currentOrderIndex) ==
  IF items = <<>> THEN <<>>
  ELSE LET item == Head(items)
       IN IF item.name = <<>> \/ (item.latest /\ item.previousHit)
          THEN DocsToInsert(ms, Tail(items), currentOrderIndex)
          ELSE <<NewDoc(item.name, item.year,
                        generateUniqueSlug(ms, item.name, item.year, NoId),
                        currentOrderIndex + 1, item.latest, item.previousHit,
                        item.isPublished)>>
               \o DocsToInsert(ms, Tail(items), currentOrderIndex + 1)

\* Movie.insertMany(docs, { ordered: false }): every document the unique slug
\* index accepts is stored, the others are dropped.
RECURSIVE InsertMany(_, _)
InsertMany(ms, docs) ==
  IF docs = <<>> THEN ms
  ELSE IF SlugIndexRejects(ms, NoId, Head(docs).slug)
       THEN InsertMany(ms, Tail(docs))
       ELSE InsertMany(Insert(ms, Head(docs)), Tail(docs))

bulkCreateMoviesResult(ms, items) ==
  LET docsToInsert == DocsToInsert(ms, items, MaxOrderIndex(ms, DOMAIN ms))
      stored == InsertMany(ms, docsToInsert)
  IN IF items = <<>> \/ docsToInsert = <<>>
     THEN Outcome(ms, Response("bulkCreateMovies", 400), 0)
     ELSE IF Cardinality(DOMAIN stored) < Cardinality(DOMAIN ms) + Len(docsToInsert)
          THEN Outcome(stored, Response("bulkCreateMovies", 500), 1)
          ELSE Outcome(stored, Response("bulkCreateMovies", 201), 1)

bulkCreateMovies(items) ==
  /\ Cardinality(DOMAIN movies) + Len(items) <= MaxMovies
  /\ LET out == bulkCreateMoviesResult(movies, items)
     IN /\ movies' = out.movies
        /\ res' = out.res
        /\ slugEpoch' = Stamp(slugEpoch, out.movies, DOMAIN out.movies \ DOMAIN movies,
                              Cardinality(DOMAIN movies))
        /\ UNCHANGED <<now, providers, inflight>>

(***************************** bulkExactUpdateMovies ***********************)
\* One element of the request's "movies" array: the target (_id, or NoId to
\* match by name), the name, and the fields present ("undefined" flag / NoSlug:
\* the field is absent from the item).
ExactItem(id, name, latest, previousHit, slug) ==
  [id |-> id, name |-> name, latest |-> latest, previousHit |-> previousHit, slug |-> slug]

\* filter = { _id } or { name: name.trim(), type }
ExactFilter(ms, item) ==
  IF item.id # NoId THEN {m \in DOMAIN ms : m = item.id}
  ELSE {m \in DOMAIN ms : ms[m].name = Trim(item.name)}

\* $set of every allowed field that is in the item; nothing is validated and
\* the slug is not regenerated.
ExactSet(doc, item) ==
  [doc EXCEPT !.name = item.name,
              !.latest = Given(item.latest, doc.latest),
              !.previousHit = Given(item.previousHit, doc.previousHit),
              !.slug = IF item.slug = NoSlug THEN doc.slug ELSE item.slug,
              \* touchesRatingsKey: `name` is in every item
              !.externalRatingsUpdatedAt = NoDate,
              !.imdbRating = NoRating,
              !.imdbUrl = NoUrl]

\* updateMany over the matching documents, in id order; the operation stops at
\* the first write the unique slug index rejects.
RECURSIVE UpdateMany(_, _, _)
UpdateMany(acc, ids, item) ==
  IF ids = <<>> THEN acc
  ELSE LET m == Head(ids)
           updated == ExactSet(acc.movies[m], item)
       IN IF SlugIndexRejects(acc.movies, m, updated.slug)
          THEN [acc EXCEPT !.failed = TRUE]
          ELSE UpdateMany([acc EXCEPT !.movies[m] = updated], Tail(ids), item)

\* Movie.bulkWrite(operations, { ordered: false })
RECURSIVE BulkWriteExact(_, _)
BulkWriteExact(acc, operations) ==
  IF operations = <<>> THEN acc
  ELSE LET item == Head(operations)
           matched == ExactFilter(acc.movies, item)
           ids == SortByKey(matched, [m \in matched |-> <<m>>])
       IN BulkWriteExact(UpdateMany(acc, ids, item), Tail(operations))

bulkExactUpdateMoviesResult(ms, items) ==
  LET operations == SelectSeq(items, LAMBDA item : Trim(item.name) # <<>>)
      written == BulkWriteExact([movies |-> ms, failed |-> FALSE], operations)
  IN IF items = <<>> \/ operations = <<>>
     THEN Outcome(ms, Response("bulkExactUpdateMovies", 400), 0)
     ELSE IF written.failed
          THEN Outcome(written.movies, Response("bulkExactUpdateMovies", 500), 1)
          ELSE Outcome(written.movies, Response("bulkExactUpdateMovies", 200), 1)

bulkExactUpdateMovies(items) ==
  LET out == bulkExactUpdateMoviesResult(movies, items)
      touched == {m \in DOMAIN movies : out.movies[m].name # movies[m].name
                                        \/ out.movies[m].slug # movies[m].slug}
  IN /\ movies' = out.movies
     /\ res' = out.res
     /\ slugEpoch' = Stamp(slugEpoch, out.movies, touched, 0 - 1)
     /\ UNCHANGED <<now, providers, inflight>>

(***************************** detail read, as an action *******************)
\* out: what the slug step of the read leaves; the two caches are refreshed on
\* the same document before it is saved.
DetailReadStep(out, id) ==
  LET found == out.res.status = 200
      assigned == IF found /\ NoUsableSlug(movies[id]) THEN {id} ELSE {}
  IN \E omdb \in OmdbAnswers(found /\ providers.omdb, IF found THEN movies[id].imdbId ELSE NoImdbId),
        tmdb \in TmdbAnswers(found /\ providers.tmdb) :
        /\ movies' = IF found
                     THEN [out.movies EXCEPT ![id] =
                             RefreshOnRead(@, now, providers, omdb, tmdb).doc]
                     ELSE out.movies
        /\ res' = out.res
        /\ slugEpoch' = Stamp(slugEpoch, out.movies, assigned, Cardinality(DOMAIN movies))
        /\ UNCHANGED <<now, providers, inflight>>

getMovieByIdAdmin(id) == DetailReadStep(getMovieByIdAdminResult(movies, id), id)

getMovieById(id) == DetailReadStep(getMovieByIdResult(movies, id), id)

(***************************** generateSlugsForAllMovies *******************)
\* for (const movie of movies) { movie.slug = await generateUniqueSlug(...); save }
RECURSIVE RegenerateFrom(_, _)
RegenerateFrom(ms, m) ==
  IF m \notin DOMAIN ms THEN ms
  ELSE RegenerateFrom(
         [ms EXCEPT ![m].slug = generateUniqueSlug(ms, ms[m].name, ms[m].year, m)],
         m + 1)

generateSlugsForAllMoviesResult(ms) ==
  Outcome(RegenerateFrom(ms, 1), Response("generateSlugsForAllMovies", 200),
          Cardinality(DOMAIN ms))

generateSlugsForAllMovies ==
  LET out == generateSlugsForAllMoviesResult(movies)
  IN /\ movies' = out.movies
     /\ res' = out.res
     /\ slugEpoch' = Stamp(slugEpoch, out.movies, DOMAIN movies, Cardinality(DOMAIN movies))
     /\ UNCHANGED <<now, providers, inflight>>

(***************************** the listing under filters *******************)
ListNames == {<<"T">>, <<"a">>}
Searches == {<<>>, <<"t">>, <<"A">>}

\* pageNumber of a request: negative, zero, every page and one past the last
PageNumbers == (0 - 1)..(MaxPage + 1)

\* PaginatedListingAssembler on a catalog of drafts and published documents,
\* plain, latest and previousHit, under two names.
NextList ==
  \/ \E name \in ListNames : \E latest, previousHit, isPublished \in BOOLEAN :
        createMovie(name, TheYear, latest, previousHit, isPublished)
  \/ \E search \in Searches : \E page \in PageNumbers : getMovies(search, page)
  \/ \E search \in Searches : \E page \in PageNumbers : getMoviesAdmin(search, page)

SpecList == Init /\ [][NextList]_vars

(***************************** C1 ******************************************)
\* The page `page` of the public (admin = FALSE) or admin listing.
ListingPage(ms, admin, search, page) ==
  IF admin THEN getMoviesAdminResult(ms, search, page).movies
  ELSE getMoviesResult(ms, search, page).movies

RECURSIVE ListingPages(_, _, _, _, _)
ListingPages(ms, admin, search, page, last) ==
  IF page > last THEN <<>>
  ELSE ListingPage(ms, admin, search, page)
         \o ListingPages(ms, admin, search, page + 1, last)

\* Pages 1..totalPages, concatenated; totalPages is the `pages` of the answer.
WholeListing(ms, admin, search) ==
  ListingPages(ms, admin, search, 1,
               IF admin THEN getMoviesAdminResult(ms, search, 1).pages
               ELSE getMoviesResult(ms, search, 1).pages)

\* The documents that match the filter.
Matching(ms, admin, search) ==
  IF admin THEN adminBaseFilter(ms, search) ELSE publicBaseFilter(ms, search)

SlugNames == {<<"T">>, <<"a">>}
Plain(name) == BulkItem(name, TheYear, FALSE, FALSE, TRUE)
BulkCreateInputs ==
  {<<>>} \cup {<<Plain(a)>> : a \in SlugNames \cup {<<>>}}
         \cup {<<Plain(a), Plain(b)>> : a, b \in SlugNames}
\* bulk updates that keep the name, that rename and set the slug by hand, and
\* that lack the name
ExactSlugInputs ==
  {<<>>} \cup {<<ExactItem(id, change[1], Undefined, Undefined, change[2])>> :
                 id \in {NoId, 1},
                 change \in {<<<<"T">>, NoSlug>>, <<<<"a">>, <<"t">>>>, <<<<>>, NoSlug>>}}

\* SlugAssigner under every handler that writes a name or a slug.
NextSlug ==
  \/ \E name \in SlugNames : createMovie(name, TheYear, FALSE, FALSE, TRUE)
  \/ \E items \in BulkCreateInputs : bulkCreateMovies(items)
  \/ \E id \in Ids : \E name \in SlugNames \cup {<<>>} :
        updateMovie(id, name, 0, Undefined, Undefined, Undefined)
  \/ \E items \in ExactSlugInputs : bulkExactUpdateMovies(items)
  \/ \E id \in Ids : getMovieByIdAdmin(id)
  \/ generateSlugsForAllMovies

\* The catalog at start: plain documents without slug and orderIndex.
InitSlug ==
  /\ InitLegacy
  /\ \A m \in DOMAIN movies : ~movies[m].latest /\ ~movies[m].previousHit

SpecSlug == InitSlug /\ [][NextSlug]_vars

(***************************** C8 ******************************************)
\* No two documents hold the same slug.
UniqueSlugs(ms) ==
  \A m, o \in DOMAIN ms : (m # o /\ ms[m].slug # NoSlug) => ms[m].slug # ms[o].slug

\* The two items of one bulk-create batch are both stored, with distinct slugs.
BatchPairGetsDistinctSlugs(ms, name) ==
  LET out == bulkCreateMoviesResult(ms, <<Plain(name), Plain(name)>>)
      m == NextId(ms)
  IN /\ DOMAIN out.movies = DOMAIN ms \cup {m, m + 1}
     /\ out.movies[m].slug # out.movies[m + 1].slug

\* C8 as claimed: no two items ever hold the same slug, and two items of one
\* bulk-create batch whose base slug coincides receive distinct slugs ("title"
\* and "title-2").
C8_SlugUniqueness ==
  /\ UniqueSlugs(movies)
  /\ \A name \in SlugNames :
        slugifyNameAndYear(name, TheYear) # <<>> => BatchPairGetsDistinctSlugs(movies, name)

\* The part of C8 the unique index keeps: no two stored slugs are equal.
C8_StoredSlugsDiffer == UniqueSlugs(movies)

(***************************** C9 ******************************************)
\* The k-th slug generateUniqueSlug tries for a base: base, base-2, base-3, ...
Candidate(baseSlug, k) ==
  IF k = 1 THEN baseSlug ELSE baseSlug \o <<"-", ToString(k)>>

\* Document m holds a candidate of its own base, and every candidate tried
\* before it is held by another document.
Settled(ms, m) ==
  LET baseSlug == SlugBase(ms[m].name, ms[m].year, m)
  IN \E k \in 1..Cardinality(DOMAIN ms) :
        /\ ms[m].slug = Candidate(baseSlug, k)
        /\ \A j \in 1..(k - 1) :
              \E o \in DOMAIN ms \ {m} : ms[o].slug = Candidate(baseSlug, j)

\* C9 (amended): regenerating the slug of an item (updateMovie with the name it
\* has, a detail read, generateUniqueSlug itself) yields the slug it holds,
\* provided every slug the probe tries before that slug is held by another
\* item; and generateSlugsForAllMovies on a catalog whose items all meet this
\* leaves every slug as it was.
C9_SlugIdempotence ==
  /\ \A m \in DOMAIN movies :
        Settled(movies, m) =>
          /\ generateUniqueSlug(movies, movies[m].name, movies[m].year, m) = movies[m].slug
          /\ updateMovieResult(movies, m, movies[m].name, movies[m].year,
                               Undefined, Undefined, Undefined).movies[m].slug = movies[m].slug
          /\ getMovieByIdAdminResult(movies, m).movies[m].slug = movies[m].slug
  /\ (\A m \in DOMAIN movies : Settled(movies, m)) =>
        \A m \in DOMAIN movies :
           generateSlugsForAllMoviesResult(movies).movies[m].slug = movies[m].slug

\* generateSlugsForAllMovies has run on a catalog where two items share a base
\* slug and hold "t" and "t-2".
C9_Witness ==
  /\ res = Response("generateSlugsForAllMovies", 200)
  /\ \E m, o \in DOMAIN movies :
        /\ movies[m].name = movies[o].name
        /\ movies[m].slug = <<"t">>
        /\ movies[o].slug = <<"t", "-", "2">>
        /\ Settled(movies, m) /\ Settled(movies, o)

\* C9 as claimed (for items whose name has a base slug): an item whose slug was
\* assigned from the name it still has regenerates to the same slug, provided
\* no item with a colliding base slug was added since.
C9_Original ==
  \A m \in DOMAIN movies :
     ( /\ slugEpoch[m] >= 0
       /\ slugifyNameAndYear(movies[m].name, movies[m].year) # <<>>
       /\ ~\E o \in DOMAIN movies \ {m} :
             /\ o > slugEpoch[m]
             /\ slugifyNameAndYear(movies[o].name, movies[o].year)
                  = slugifyNameAndYear(movies[m].name, movies[m].year) )
     => generateUniqueSlug(movies, movies[m].name, movies[m].year, m) = movies[m].slug

(***************************** flags ***************************************)
Flagged(latest, previousHit) == BulkItem(TheName, TheYear, latest, previousHit, TRUE)
BulkFlagInputs ==
  {<<>>} \cup {<<Flagged(l, p)>> : l, p \in BOOLEAN}
         \cup {<<Flagged(l, FALSE), Flagged(FALSE, p)>> : l, p \in BOOLEAN}
ExactFlagInputs ==
  {<<>>} \cup {<<ExactItem(id, name, l, p, NoSlug)>> :
                 id \in {NoId, 1}, name \in {TheName, <<>>}, l, p \in FlagInputs}

\* Every handler that writes latest or previousHit.
NextFlags ==
  \/ \E latest, previousHit \in BOOLEAN :
        createMovie(TheName, TheYear, latest, previousHit, TRUE)
  \/ \E items \in BulkFlagInputs : bulkCreateMovies(items)
  \/ \E id \in Ids : \E latest, previousHit \in FlagInputs :
        updateMovie(id, <<>>, 0, latest, previousHit, Undefined)
  \/ \E items \in ExactFlagInputs : bulkExactUpdateMovies(items)
  \/ \E targetPage \in {1, MaxPage} : \E movieIds \in SUBSET {1, 2} :
        moveMoviesToPage(targetPage, movieIds)

\* The catalog at start: empty.
InitEmpty ==
  /\ movies = <<>>
  /\ res = Response("init", 0)
  /\ slugEpoch = <<>>
  /\ now = 1
  /\ providers = NoProviders
  /\ inflight = <<>>

SpecFlags == InitEmpty /\ [][NextFlags]_vars

(***************************** C10 *****************************************)
\* C10 as claimed: in every state reachable through createMovie,
\* bulkCreateMovies, updateMovie, bulkExactUpdateMovies and moveMoviesToPage no
\* item is both latest and previousHit.
C10_FlagExclusivity ==
  \A m \in DOMAIN movies : ~(movies[m].latest /\ movies[m].previousHit)


(***************************** the provider caches at work *****************)
EnrichNames == {<<"T">>, <<"a">>}
\* ids asked for: the stored item and one that does not exist
EnrichIds == {1, 2}
EnrichImdbIds == {NoImdbId} \cup {"tt0000001"} \cup MalformedIds

\* The clock moves on by a day.
Tick ==
  /\ now < MaxClock
  /\ now' = now + 1
  /\ UNCHANGED <<movies, res, slugEpoch, providers, inflight>>

\* One item, stored by bulkCreateMovies (which asks no provider) with or
\* without an imdbId; the process holds any combination of provider keys.
InitEnrich ==
  /\ \E imdbId \in EnrichImdbIds :
        movies = [m \in {1} |->
                    [bulkCreateMoviesResult(<<>>, <<BulkItem(TheName, TheYear, FALSE, FALSE, TRUE)>>)
                       .movies[m] EXCEPT !.imdbId = imdbId]]
  /\ res = Response("init", 0)
  /\ slugEpoch = [m \in DOMAIN movies |-> 0]
  /\ now = 1
  /\ providers \in [tmdb : BOOLEAN, omdb : BOOLEAN]
  /\ inflight = <<>>

\* (The admin detail read refreshes like the public one; it runs in SpecPublish.)
NextEnrich ==
  \/ \E id \in EnrichIds : getMovieById(id)
  \/ \E id \in EnrichIds : \E name \in EnrichNames :
        updateMovie(id, name, 0, Undefined, Undefined, Undefined)
  \/ \E id \in {NoId, 1} : \E name \in EnrichNames :
        bulkExactUpdateMovies(<<ExactItem(id, name, Undefined, Undefined, NoSlug)>>)
  \/ Tick

SpecEnrich == InitEnrich /\ [][NextEnrich]_vars

(***************************** C11 *****************************************)
\* The successful answers of each provider.
TmdbMatches == {answer \in TmdbAnswers(TRUE) : answer.found}
OmdbMatches(imdbId) == {answer \in OmdbAnswers(TRUE, imdbId) : answer.found}

\* The days on which a stamp of day t is within / just past a TTL.
Within(t, ttl) == t..(t + ttl)
JustPast(t, ttl) == t + ttl + 1

\* If the credits of `movieDoc` are refreshed on day t with `answer`, they are
\* fresh on every day within the TTL and stale on the day after.
CreditsFreshFor(movieDoc, t, keys, force, answer) ==
  LET refresh == ensureMovieTmdbCredits(movieDoc, t, keys.tmdb, force, answer)
      refreshed == refresh.doc
  IN refresh.calls = 1 =>
     /\ refreshed.tmdbCreditsUpdatedAt = t
     /\ \A day \in Within(t, TMDB_CREDITS_TTL_DAYS) : ~shouldRefreshTmdbCredits(refreshed, day)
     /\ shouldRefreshTmdbCredits(refreshed, JustPast(t, TMDB_CREDITS_TTL_DAYS))

\* The same for the ratings.
RatingsFreshFor(movieDoc, t, keys, answer) ==
  LET refresh == ensureMovieExternalRatings(movieDoc, t, keys.omdb, answer)
      refreshed == refresh.doc
  IN refresh.calls = 1 =>
     /\ refreshed.externalRatingsUpdatedAt = t
     /\ \A day \in Within(t, TTL_DAYS) : ~shouldRefresh(refreshed, day)
     /\ shouldRefresh(refreshed, JustPast(t, TTL_DAYS))

\* C11: after a successful refresh (any successful answer, a match without
\* cast or without rating included) stamped the sub-cache, shouldRefresh is
\* false for the item while its age is within the TTL, and true once the age
\* exceeds the TTL; for the credits and for the ratings.
C11_StalenessCorrectness ==
  \A m \in DOMAIN movies :
     /\ \A answer \in TmdbMatches : \A force \in BOOLEAN :
           CreditsFreshFor(movies[m], now, providers, force, answer)
     /\ \A answer \in OmdbMatches(movies[m].imdbId) :
           RatingsFreshFor(movies[m], now, providers, answer)

\* What holds of C11: the ratings sub-cache, and the credits sub-cache when the
\* item holds a cast list after the refresh.
C11_RatingsAndCastedCredits ==
  \A m \in DOMAIN movies :
     /\ \A answer \in TmdbMatches : \A force \in BOOLEAN :
           Len(ensureMovieTmdbCredits(movies[m], now, providers.tmdb, force, answer).doc.casts) > 0
             => CreditsFreshFor(movies[m], now, providers, force, answer)
     /\ \A answer \in OmdbMatches(movies[m].imdbId) :
           RatingsFreshFor(movies[m], now, providers, answer)

(***************************** C12 *****************************************)
\* If a detail read on day t asks TMDb for the credits of `movieDoc` and the
\* lookup fails, the attempt is stamped and no detail read within the TTL asks
\* again.
CreditsQuietAfterFailure(movieDoc, t, keys) ==
  LET attempt == ensureMovieTmdbCredits(movieDoc, t, keys.tmdb, FALSE, NoAnswer)
  IN attempt.calls = 1 =>
     /\ attempt.doc.tmdbCreditsUpdatedAt = t
     /\ \A day \in Within(t, TMDB_CREDITS_TTL_DAYS) : \A answer \in TmdbAnswers(TRUE) :
           ensureMovieTmdbCredits(attempt.doc, day, keys.tmdb, FALSE, answer).calls = 0

\* The same for the ratings and OMDb.
RatingsQuietAfterFailure(movieDoc, t, keys) ==
  LET attempt == ensureMovieExternalRatings(movieDoc, t, keys.omdb, NoAnswer)
  IN attempt.calls = 1 =>
     /\ attempt.doc.externalRatingsUpdatedAt = t
     /\ \A day \in Within(t, TTL_DAYS) :
        \A answer \in OmdbAnswers(TRUE, attempt.doc.imdbId) :
           ensureMovieExternalRatings(attempt.doc, day, keys.omdb, answer).calls = 0

\* C12: after a refresh attempt of a detail read failed, the sub-cache is
\* stamped and every later detail read of the item within the TTL makes no
\* provider call for that sub-cache; for the credits and for the ratings.
C12_FailedRefreshStopsCalls ==
  \A m \in DOMAIN movies :
     /\ CreditsQuietAfterFailure(movies[m], now, providers)
     /\ RatingsQuietAfterFailure(movies[m], now, providers)

\* What holds of C12: the stamp is always set; the credits are left alone when
\* the item holds a cast list, the ratings when the item's imdbId is empty or
\* one the url pattern matches.
C12_StampedAndQuietWhenCachedBefore ==
  \A m \in DOMAIN movies :
     /\ ensureMovieTmdbCredits(movies[m], now, providers.tmdb, FALSE, NoAnswer).calls = 1
          => ensureMovieTmdbCredits(movies[m], now, providers.tmdb, FALSE, NoAnswer)
               .doc.tmdbCreditsUpdatedAt = now
     /\ Len(movies[m].casts) > 0 => CreditsQuietAfterFailure(movies[m], now, providers)
     /\ movies[m].imdbId \notin MalformedIds
          => RatingsQuietAfterFailure(movies[m], now, providers)

(***************************** C13 *****************************************)
\* The credits of the document are cleared and stale on day t.
CreditsInvalidated(movieDoc, t) ==
  /\ movieDoc.tmdbCreditsUpdatedAt = NoDate
  /\ movieDoc.tmdbId = NoTmdbId
  /\ shouldRefreshTmdbCredits(movieDoc, t)

\* The ratings of the document are cleared and stale on day t.
RatingsInvalidated(movieDoc, t) ==
  /\ movieDoc.externalRatingsUpdatedAt = NoDate
  /\ movieDoc.imdbUrl = NoUrl
  /\ movieDoc.imdbRating = NoRating
  /\ shouldRefresh(movieDoc, t)

\* What updateMovie holds when it comes to its refresh step, for a request
\* that renames document `id`.
RenamedByUpdate(ms, id, name) ==
  updateMovieResult(ms, id, name, 0, Undefined, Undefined, Undefined)

\* What bulkExactUpdateMovies leaves for an item that renames document `id`.
RenamedByBulk(ms, id, name) ==
  bulkExactUpdateMoviesResult(ms, <<ExactItem(id, name, Undefined, Undefined, NoSlug)>>)

\* C13: after a write that changes an item's name, through updateMovie or
\* through bulkExactUpdateMovies, shouldRefresh is true for the credits and for
\* the ratings of the item (until a refresh for the new identity runs).
C13_IdentityChangeInvalidates ==
  \A m \in DOMAIN movies : \A name \in EnrichNames \ {movies[m].name} :
     /\ RenamedByUpdate(movies, m, name).res.status = 201 =>
          /\ shouldRefreshTmdbCredits(RenamedByUpdate(movies, m, name).movies[m], now)
          /\ shouldRefresh(RenamedByUpdate(movies, m, name).movies[m], now)
     /\ RenamedByBulk(movies, m, name).res.status = 200 =>
          /\ shouldRefreshTmdbCredits(RenamedByBulk(movies, m, name).movies[m], now)
          /\ shouldRefresh(RenamedByBulk(movies, m, name).movies[m], now)

\* What holds of C13: updateMovie resets the stamp and the provider id of both
\* sub-caches, and bulkExactUpdateMovies those of the ratings.
C13_UpdateInvalidatesBulkOnlyRatings ==
  \A m \in DOMAIN movies : \A name \in EnrichNames \ {movies[m].name} :
     /\ RenamedByUpdate(movies, m, name).res.status = 201 =>
          /\ CreditsInvalidated(RenamedByUpdate(movies, m, name).movies[m], now)
          /\ RatingsInvalidated(RenamedByUpdate(movies, m, name).movies[m], now)
     /\ RenamedByBulk(movies, m, name).res.status = 200 =>
          RatingsInvalidated(RenamedByBulk(movies, m, name).movies[m], now)

(***************************** drafts and published items ******************)
\* Every write path at work on a catalog whose documents are published and
\* unpublished, and the four reads.
NextPublish ==
  \/ \E latest, previousHit, isPublished \in BOOLEAN :
        createMovie(TheName, TheYear, latest, previousHit, isPublished)
  \/ \E id \in Ids : \E isPublished \in {"true", "false"} :
        updateMovie(id, <<>>, 0, Undefined, Undefined, isPublished)
  \/ \E isPublished \in BOOLEAN :
        bulkCreateMovies(<<BulkItem(TheName, TheYear, FALSE, FALSE, isPublished)>>)
  \/ \E previousHit \in {"true", "false"} :
        bulkExactUpdateMovies(<<ExactItem(1, TheName, Undefined, previousHit, NoSlug)>>)
  \/ \E orderedIds \in OrderedIdsInputs : reorderMoviesInPage(1, orderedIds, <<>>)
  \/ moveMoviesToPage(MaxPage, {1})
  \/ \E page \in {1, MaxPage} : getMovies(<<>>, page)
  \/ \E page \in {1, MaxPage} : getMoviesAdmin(<<>>, page)
  \/ \E id \in Ids : getMovieById(id)
  \/ \E id \in Ids : getMovieByIdAdmin(id)

SpecPublish == InitEmpty /\ [][NextPublish]_vars

(***************************** C14 *****************************************)
\* C14: an item with isPublished = false is on no page of the public listing,
\* for any filter, and the public detail read of it answers 404; the admin
\* listing with a filter the item matches has it on one of its pages and the
\* admin detail read answers 200 with the item.
C14_UnpublishedNeverPublic ==
  \A m \in DOMAIN movies : ~movies[m].isPublished =>
     /\ \A search \in Searches : \A page \in 1..(MaxPage + 1) :
           m \notin Range(getMoviesResult(movies, search, page).movies)
     /\ getMovieByIdResult(movies, m).res.status = 404
     /\ \A search \in Searches :
           m \in adminBaseFilter(movies, search) =>
             \E page \in 1..getMoviesAdminResult(movies, search, 1).pages :
                m \in Range(getMoviesAdminResult(movies, search, page).movies)
     /\ getMovieByIdAdminResult(movies, m).res.status = 200
     /\ m \in DOMAIN getMovieByIdAdminResult(movies, m).movies

\* Every id is stored, a draft among them next to a published item and a
\* previousHit item, and a public detail read has just answered 404.
C14_Witness ==
  /\ DOMAIN movies = Ids
  /\ \E m, o \in DOMAIN movies : ~movies[m].isPublished /\ movies[o].isPublished
  /\ \E m \in DOMAIN movies : movies[m].previousHit
  /\ res = Response("getMovieById", 404)

(***************************** C15 *****************************************)
\* The filtered normal items in their order, followed by the filtered pinned
\* items in theirs.
ReferenceSequence(ms, base) ==
  SortByKey({m \in base : ~ms[m].previousHit},
            [m \in DOMAIN ms |-> <<IF ms[m].latest THEN 0 ELSE 1, ms[m].orderIndex, 0 - m>>])
  \o SortByKey({m \in base : ms[m].previousHit},
               [m \in DOMAIN ms |-> <<ms[m].orderIndex, 0 - m>>])

\* Positions [(page - 1) * L, page * L) of a sequence, as far as it reaches.
ReferenceSlice(seq, page) ==
  LET from == (page - 1) * REORDER_PAGE_LIMIT
  IN [i \in 1..Max(0, Min(REORDER_PAGE_LIMIT, Len(seq) - from)) |-> seq[from + i]]

ListingAnswer(ms, admin, search, page) ==
  IF admin THEN getMoviesAdminResult(ms, search, page) ELSE getMoviesResult(ms, search, page)

\* countNormal and countPinned of a filter result.
CountNormal(ms, base) == Cardinality({m \in base : ~ms[m].previousHit})
CountPinned(ms, base) == Cardinality({m \in base : ms[m].previousHit})

\* C16 as stated: for every filter result, an empty one included, the listing
\* reports totalMovies = countNormal + countPinned and pages = ceil(totalMovies / L).
C16_Original ==
  \A admin \in BOOLEAN : \A search \in Searches : \A page \in 1..(MaxPage + 1) :
     LET answer == ListingAnswer(movies, admin, search, page)
         base == Matching(movies, admin, search)
     IN /\ answer.totalMovies = CountNormal(movies, base) + CountPinned(movies, base)
        /\ answer.pages = CeilDiv(answer.totalMovies, REORDER_PAGE_LIMIT)

\* C16, amended: for every filter result the listing reports
\* totalMovies = countNormal + countPinned, and pages = ceil(totalMovies / L)
\* when the result is not empty, pages = 1 when it is empty.
C16_CountsAndPages ==
  \A admin \in BOOLEAN : \A search \in Searches : \A page \in 1..(MaxPage + 1) :
     LET answer == ListingAnswer(movies, admin, search, page)
         base == Matching(movies, admin, search)
     IN /\ answer.totalMovies = CountNormal(movies, base) + CountPinned(movies, base)
        /\ answer.totalMovies > 0 =>
             answer.pages = CeilDiv(answer.totalMovies, REORDER_PAGE_LIMIT)
        /\ answer.totalMovies = 0 => answer.pages = 1

\* A listing has been served from a catalog in which one filter matches nothing
\* and another matches normal and pinned items on more than one page.
C16_Witness ==
  /\ res.op \in {"getMovies", "getMoviesAdmin"}
  /\ \E search \in Searches : Matching(movies, FALSE, search) = {}
  /\ \E search \in Searches :
        LET base == Matching(movies, FALSE, search)
        IN /\ CountNormal(movies, base) > 0
           /\ CountPinned(movies, base) > 0
           /\ getMoviesResult(movies, search, 1).pages > 1

(***************************** C17 *****************************************)
\* The page count the public listing reports for page 1 of a filter.
TotalPagesOf(ms, search) == getMoviesResponse(ms, search, 1).pages

\* C17: for every requested page number outside [1, totalPages] (above the
\* last page, zero, or negative) getMovies answers without an error, with an
\* empty item list and the totalPages it reports for an in-range page.
C17_OutOfRangePagesAreEmpty ==
  \A search \in Searches : \A pageNumber \in PageNumbers :
     (pageNumber < 1 \/ pageNumber > TotalPagesOf(movies, search)) =>
        LET answer == getMoviesResponse(movies, search, pageNumber)
        IN /\ answer.status = 200
           /\ answer.movies = <<>>
           /\ answer.pages = TotalPagesOf(movies, search)

\* What holds of C17: a page above the last is answered with status 200, an
\* empty list and the same totalPages; page 0 is answered as page 1.
C17_AboveLastIsEmpty ==
  \A search \in Searches :
     /\ \A pageNumber \in PageNumbers : pageNumber > TotalPagesOf(movies, search) =>
           LET answer == getMoviesResponse(movies, search, pageNumber)
           IN /\ answer.status = 200
              /\ answer.movies = <<>>
              /\ answer.pages = TotalPagesOf(movies, search)
     /\ getMoviesResponse(movies, search, 0) = getMoviesResponse(movies, search, 1)

(***************************** C18 *****************************************)
\* Bulk updates of two items.
ExactPairInputs ==
  {first \o second : first, second \in ExactSlugInputs \ {<<>>}}

\* C18: a bulk operation in which at least one item succeeded answers with a
\* success status (a failure on one item is reported, it does not fail the
\* call); for bulkCreateMovies and for bulkExactUpdateMovies.
C18_PartialFailureTolerated ==
  /\ \A items \in BulkCreateInputs :
        Cardinality(DOMAIN movies) + Len(items) <= MaxMovies =>
          LET out == bulkCreateMoviesResult(movies, items)
          IN DOMAIN out.movies # DOMAIN movies => out.res.status = 201
  /\ \A items \in ExactPairInputs :
        LET out == bulkExactUpdateMoviesResult(movies, items)
        IN out.movies # movies => out.res.status = 200

\* What holds of C18: an item that fails the handler's own validation (here: it
\* has no name) does not stop the valid item after it, and the call succeeds.
C18_InvalidItemsTolerated ==
  /\ \A name \in SlugNames :
        Cardinality(DOMAIN movies) + 2 <= MaxMovies =>
          LET out == bulkCreateMoviesResult(movies, <<Plain(<<>>), Plain(name)>>)
          IN /\ out.res.status = 201
             /\ NextId(movies) \in DOMAIN out.movies
             /\ out.movies[NextId(movies)].name = name
  /\ \A m \in DOMAIN movies : \A name \in SlugNames :
        LET out == bulkExactUpdateMoviesResult(
                     movies, <<ExactItem(NoId, <<>>, Undefined, Undefined, NoSlug),
                               ExactItem(m, name, Undefined, Undefined, NoSlug)>>)
        IN /\ out.res.status = 200
           /\ out.movies[m].name = name

(***************************** C19 *****************************************)
\* What createMovie (bulk = FALSE) or bulkCreateMovies with one item leaves.
Created(ms, bulk, latest, previousHit) ==
  IF bulk THEN bulkCreateMoviesResult(ms, <<Flagged(latest, previousHit)>>)
  ELSE createMovieResult(ms, TheName, TheYear, latest, previousHit, TRUE)

\* The documents of the partition of m: the pinned ones if m is pinned, the
\* normal ones otherwise.
PartitionOf(ms, m) == {o \in DOMAIN ms : ms[o].previousHit = ms[m].previousHit}

\* m is the last document of its partition in the listing.
LastOfPartition(ms, admin, m) ==
  \A o \in PartitionOf(ms, m) \ {m} : Precedes(WholeListing(ms, admin, <<>>), o, m)

\* C19: after createMovie or bulkCreateMovies succeeded, the created item is
\* the last item of its partition in the listing (of the pinned partition if it
\* is pinned, of the normal partition otherwise), for every flag combination
\* (promoted, pinned, neither).
C19_NewItemAtTail ==
  \A bulk, admin, latest, previousHit \in BOOLEAN :
     LET out == Created(movies, bulk, latest, previousHit)
     IN (Cardinality(DOMAIN movies) < MaxMovies /\ out.res.status = 201) =>
          LastOfPartition(out.movies, admin, NextId(movies))

\* What holds of C19: a created item that is not promoted is the last item of
\* its partition in the listing; a promoted item comes before every normal
\* item that is not promoted.
C19_UnpromotedAtTail ==
  \A bulk, admin, latest, previousHit \in BOOLEAN :
     LET out == Created(movies, bulk, latest, previousHit)
         m == NextId(movies)
     IN (Cardinality(DOMAIN movies) < MaxMovies /\ out.res.status = 201) =>
          /\ m \in DOMAIN out.movies
          /\ out.movies[m].latest = latest /\ out.movies[m].previousHit = previousHit
          /\ ~latest => LastOfPartition(out.movies, admin, m)
          /\ latest => \A o \in PartitionOf(out.movies, m) :
                          ~out.movies[o].latest =>
                             Precedes(WholeListing(out.movies, admin, <<>>), m, o)

(***************************** names without a slug candidate ***************)
\* "!" holds no character a slug keeps: its candidate is empty.
FallbackNames == {<<"!">>, <<"T">>}

\* SlugAssigner on a catalog with names whose candidate is empty.
NextFallback ==
  \/ \E name \in FallbackNames : createMovie(name, TheYear, FALSE, FALSE, TRUE)
  \/ \E name \in FallbackNames : bulkCreateMovies(<<Plain(name)>>)
  \/ \E id \in Ids : \E name \in FallbackNames :
        updateMovie(id, name, 0, Undefined, Undefined, Undefined)
  \/ \E id \in Ids : getMovieByIdAdmin(id)
  \/ generateSlugsForAllMovies

SpecFallback == InitEmpty /\ [][NextFallback]_vars

(***************************** C20 *****************************************)
\* A slug that is only a numeric suffix: "-2", "-3", ...
NumericSuffixOnly(slug) ==
  Len(slug) = 2 /\ slug[1] = "-" /\ slug[2] \in {ToString(n) : n \in 2..(MaxMovies + 1)}

\* The slug starts with the id of document m.
BasedOnId(slug, m) == Len(slug) >= 1 /\ SubSeq(slug, 1, 1) = IdString(m)

\* C20: no item is stored with an empty slug or with a slug that is only a
\* numeric suffix; an item whose name yields an empty candidate holds a slug
\* that has the item's own id as its base.
C20_SlugFallbackToId ==
  \A m \in DOMAIN movies :
     /\ movies[m].slug # <<>>
     /\ ~NumericSuffixOnly(movies[m].slug)
     /\ (slugifyNameAndYear(movies[m].name, movies[m].year) = <<>> /\ movies[m].slug # NoSlug)
          => BasedOnId(movies[m].slug, m)

\* What holds of C20: when SlugAssigner is given the item's id (updateMovie, the
\* detail read, the regeneration of all slugs), an empty candidate is replaced
\* by the id.
C20_FallbackWhenIdGiven ==
  \A m \in DOMAIN movies : \A name \in FallbackNames :
     slugifyNameAndYear(name, movies[m].year) = <<>>
       => BasedOnId(generateUniqueSlug(movies, name, movies[m].year, m), m)


(***************************** createMovie calls that overlap **************)
\* Handler calls the server may hold at a time.
Calls == {1, 2}

Without(calls, c) == [d \in DOMAIN calls \ {c} |-> calls[d]]
With(calls, c, locals) == [d \in DOMAIN calls \cup {c} |->
                             IF d = c THEN locals ELSE calls[d]]

\* The catalog may still take the insert of every call.
RoomForCalls == Cardinality(DOMAIN movies) + Cardinality(Calls) <= MaxMovies

\* A createMovie that would hold a lock from its probe to its save: no other
\* call gets to probe meanwhile.
createMovieProbe_Locked(c, name, year, latest, previousHit, isPublished) ==
  /\ inflight = <<>>
  /\ RoomForCalls
  /\ IF name = <<>> \/ (latest /\ previousHit)
     THEN /\ res' = Response("createMovie", 400)
          /\ UNCHANGED inflight
     ELSE /\ inflight' = With(inflight, c,
                [op |-> "createMovie",
                 name |-> name, year |-> year,
                 latest |-> latest, previousHit |-> previousHit,
                 isPublished |-> isPublished,
                 newOrderIndex |-> InitialOrderIndex(movies, latest, previousHit),
                 slug |-> generateUniqueSlug(movies, name, year, NoId),
                 size |-> Cardinality(DOMAIN movies)])
          /\ UNCHANGED res
  /\ UNCHANGED <<movies, slugEpoch, now, providers>>

\* createMovie up to its await of movie.save(): validation, the orderIndex
\* queries and the collision probe of generateUniqueSlug, all read from the
\* store as it is now; the call keeps what it computed in its locals.
createMovieProbe(c, name, year, latest, previousHit, isPublished) ==
  /\ c \notin DOMAIN inflight
  /\ RoomForCalls
  /\ IF name = <<>> \/ (latest /\ previousHit)
     THEN /\ res' = Response("createMovie", 400)
          /\ UNCHANGED inflight
     ELSE /\ inflight' = With(inflight, c,
                [op |-> "createMovie",
                 name |-> name, year |-> year,
                 latest |-> latest, previousHit |-> previousHit,
                 isPublished |-> isPublished,
                 newOrderIndex |-> InitialOrderIndex(movies, latest, previousHit),
                 slug |-> generateUniqueSlug(movies, name, year, NoId),
                 size |-> Cardinality(DOMAIN movies)])
          /\ UNCHANGED res
  /\ UNCHANGED <<movies, slugEpoch, now, providers>>

\* movie.save() of a call that has probed: the unique index decides.
createMovieSaveResult(ms, call) ==
  LET doc == NewDoc(call.name, call.year, call.slug, call.newOrderIndex,
                    call.latest, call.previousHit, call.isPublished)
  IN IF SlugIndexRejects(ms, NoId, call.slug)
     THEN Outcome(ms, Response("createMovie", 400), 0)
     ELSE Outcome(Insert(ms, doc), Response("createMovie", 201), 1)

\* The rest of createMovie: the credits lookup, the save and the answer.
createMovieSave(c) ==
  /\ c \in DOMAIN inflight
  /\ inflight[c].op = "createMovie"
  /\ \E tmdb \in TmdbAnswers(providers.tmdb) :
       LET out == createMovieSaveResult(movies, inflight[c])
           created == DOMAIN out.movies \ DOMAIN movies
       IN /\ movies' = [m \in DOMAIN out.movies |->
                          IF m \in created
                          THEN CreationCredits(out.movies[m], now, providers.tmdb, tmdb)
                          ELSE out.movies[m]]
          /\ res' = out.res
          /\ slugEpoch' = Stamp(slugEpoch, out.movies, created, inflight[c].size)
          /\ inflight' = Without(inflight, c)
          /\ UNCHANGED <<now, providers>>

RaceNames == {<<>>, <<"T">>, <<"a">>}

NextRace ==
  \/ \E c \in Calls : \E name \in RaceNames : \E latest, previousHit \in BOOLEAN :
       createMovieProbe(c, name, TheYear, latest, previousHit, TRUE)
  \/ \E c \in Calls : createMovieSave(c)

SpecRace == InitEmpty /\ [][NextRace]_vars

(***************************** C21 *****************************************)
\* C21: the collision probe and the insert of createMovie are separate steps
\* with nothing between them that excludes another call: whenever a call has
\* probed and not yet saved and its candidate slug is still free in the store,
\* any other call can finish its own probe for the same name right now, and it
\* comes out with the same candidate slug.
C21_ProbeThenInsertNotAtomic ==
  \A c \in DOMAIN inflight : \A d \in Calls \ DOMAIN inflight :
    (RoomForCalls /\ ~SlugTaken(movies, inflight[c].slug, NoId))
      => ENABLED (/\ createMovieProbe(d, inflight[c].name, inflight[c].year,
                                      FALSE, FALSE, TRUE)
                  /\ d \in DOMAIN inflight'
                  /\ inflight'[d].slug = inflight[c].slug)

\* Two calls have both finished the probe, neither has inserted, and both
\* carry the same candidate slug.
C21_Witness ==
  \E c, d \in DOMAIN inflight :
    /\ c # d
    /\ inflight[c].name = inflight[d].name
    /\ inflight[c].slug = inflight[d].slug
    /\ ~SlugTaken(movies, inflight[c].slug, NoId)

\* What follows: the later save of the two meets the unique index.
C21_LaterSaveRejected ==
  \A c, d \in DOMAIN inflight :
    (c # d /\ inflight[c].slug = inflight[d].slug)
      => createMovieSaveResult(createMovieSaveResult(movies, inflight[c]).movies,
                               inflight[d]).res.status = 400

(***************************** C22 *****************************************)
\* C22 as claimed: after a successful reorderMoviesInPage(page, orderedIds) the
\* admin listing of that page under the same filter is exactly orderedIds, in
\* that order, whatever the page holds.
C22_ReorderGivesRequestedOrder ==
  \A page \in ReorderPages : \A orderedIds \in OrderedIdsInputs :
     LET out == reorderMoviesInPageResult(movies, page, orderedIds, <<>>)
     IN out.res.status = 200 => AdminPage(out.movies, Max(1, page)) = orderedIds

\* The page's items are alike for the listing's sort: none is promoted, or all
\* are, none is pinned, or all are, and none shares its orderIndex with another
\* item of the catalog.
UniformPage(ms, page) ==
  LET onPage == Range(AdminPage(ms, page))
  IN /\ \A a, b \in onPage :
          /\ ms[a].latest = ms[b].latest
          /\ ms[a].previousHit = ms[b].previousHit
     /\ \A a \in onPage : \A b \in DOMAIN ms :
          a # b => ms[a].orderIndex # ms[b].orderIndex

\* What does hold: on a page whose items carry the same flags and orderIndex
\* values no other item holds, the listing after the reorder is orderedIds.
C22_RequestedOrderOnUniformPage ==
  \A page \in ReorderPages : \A orderedIds \in OrderedIdsInputs :
     LET out == reorderMoviesInPageResult(movies, page, orderedIds, <<>>)
     IN (out.res.status = 200 /\ MissingOrderIndex(movies) = {}
           /\ UniformPage(movies, Max(1, page)))
          => AdminPage(out.movies, Max(1, page)) = orderedIds

(***************************** C23 *****************************************)
\* The orderIndex values the items `ids` hold, each with its number of holders.
BagOfIndexes(ms, ids) ==
  [v \in {ms[m].orderIndex : m \in ids} |->
     Cardinality({m \in ids : ms[m].orderIndex = v})]

\* The items of orderedIds hold after the call the values they held in
\* `before`, handed out in ascending order along orderedIds.
SlotAssignment(before, after, orderedIds) ==
  /\ BagOfIndexes(after, Range(orderedIds)) = BagOfIndexes(before, Range(orderedIds))
  /\ \A i, j \in 1..Len(orderedIds) :
        i < j => after[orderedIds[i]].orderIndex <= after[orderedIds[j]].orderIndex

FullRenumber(after, moved, page, key) ==
  LET N == Cardinality(DOMAIN after)
      offset == Min((page - 1) * REORDER_PAGE_LIMIT, N - Len(moved))
      rest == DOMAIN after \ Range(moved)
  IN /\ {after[m].orderIndex : m \in DOMAIN after} = 1..N
     /\ \A a, b \in DOMAIN after : a # b => after[a].orderIndex # after[b].orderIndex
     /\ \A i \in 1..Len(moved) : after[moved[i]].orderIndex = offset + i
     /\ \A i, j \in 1..Len(moved) : i < j => ~LexLess(key[moved[j]], key[moved[i]])
     /\ \A a, b \in rest :
          LexLess(key[a], key[b]) => after[a].orderIndex < after[b].orderIndex

\* C24: after a successful move on a catalog of N items the orderIndex values
\* are pairwise distinct and exactly 1..N, orderIndex = position + 1 in
\* remaining[0..offset) ++ moved ++ remaining[offset..) with
\* offset = min((targetPage - 1) * L, |remaining|), the target page clamped
\* into 1..ceil(N / L).
C24_FullRenumberByMove ==
  \A targetPage \in MovePages : \A movieIds \in SUBSET Ids :
     \A out \in moveMoviesToPageResults(movies, targetPage, movieIds) :
        out.res.status = 200 =>
          LET N == Cardinality(DOMAIN movies)
              requested == IF targetPage = 0 THEN 1 ELSE targetPage
          IN /\ DOMAIN out.movies = DOMAIN movies
             /\ out.targetPage = Max(1, Min(requested, CeilDiv(N, REORDER_PAGE_LIMIT)))
             /\ Range(out.moved) = movieIds \cap DOMAIN movies
             /\ FullRenumber(out.movies, out.moved, out.targetPage,
                             sortMove(ensureOrderIndexes(movies)))

\* A move to a page behind the first has succeeded on a full catalog, and the
\* items are numbered 1..N.
C24_Witness ==
  /\ res = Response("moveMoviesToPage", 200)
  /\ Cardinality(DOMAIN movies) = MaxMovies
  /\ {movies[m].orderIndex : m \in DOMAIN movies} = 1..MaxMovies
  /\ \E m \in DOMAIN movies : ~movies[m].latest /\ movies[m].orderIndex = MaxMovies

(***************************** C25 *****************************************)
\* The items of `among` stand in `after`'s full listing in the relative order
\* they had in `before`'s.
SameRelativeOrder(before, after, among) ==
  \A a, b \in among :
     Precedes(FullAdminListing(before), a, b) => Precedes(FullAdminListing(after), a, b)

\* C25 as claimed (on catalogs whose items all hold an orderIndex): after a
\* successful move any two items outside the moved set stand in the full
\* listing in the relative order they had before, and so do any two moved items.
C25_MoveKeepsRelativeOrder ==
  MissingOrderIndex(movies) = {} =>
  \A targetPage \in MovePages : \A movieIds \in SUBSET Ids :
     \A out \in moveMoviesToPageResults(movies, targetPage, movieIds) :
        out.res.status = 200 =>
          /\ SameRelativeOrder(movies, out.movies, DOMAIN movies \ movieIds)
          /\ SameRelativeOrder(movies, out.movies, DOMAIN movies \cap movieIds)

\* No two items of the catalog hold the same orderIndex.
DistinctOrderIndexes(ms) ==
  \A a, b \in DOMAIN ms : a # b => ms[a].orderIndex # ms[b].orderIndex

\* What does hold: when the orderIndex values are pairwise distinct and no item
\* is both promoted and pinned, the items outside the moved set keep their
\* relative order.
C25_RemainingKeepOrderWithoutTies ==
  (MissingOrderIndex(movies) = {} /\ DistinctOrderIndexes(movies)
     /\ \A m \in DOMAIN movies : ~(movies[m].latest /\ movies[m].previousHit)) =>
  \A targetPage \in MovePages : \A movieIds \in SUBSET Ids :
     \A out \in moveMoviesToPageResults(movies, targetPage, movieIds) :
        out.res.status = 200 =>
          SameRelativeOrder(movies, out.movies, DOMAIN movies \ movieIds)

(***************************** C26 *****************************************)
\* C26 as claimed: when the repair pass runs because an item lacks an
\* orderIndex, the items that already held one stand in the full listing in the
\* same relative order after the pass as before it.
C26_RepairKeepsDisplayOrder ==
  MissingOrderIndex(movies) # {} =>
    SameRelativeOrder(movies, ensureOrderIndexes(movies),
                      DOMAIN movies \ MissingOrderIndex(movies))

\* What the pass does: it numbers all items 1..N, promoted items first, pinned
\* items last, and the later created item first among items with equal flags.
C26_RepairNumbersByCreation ==
  MissingOrderIndex(movies) # {} =>
    LET after == ensureOrderIndexes(movies)
    IN /\ {after[m].orderIndex : m \in DOMAIN after} = 1..Cardinality(DOMAIN movies)
       /\ \A a, b \in DOMAIN movies :
            (/\ movies[a].latest = movies[b].latest
             /\ movies[a].previousHit = movies[b].previousHit
             /\ a > b) => after[a].orderIndex < after[b].orderIndex

(***************************** bulk writes that stop half way **************)
\* Movie.bulkWrite(bulkOps, { ordered: true }) that ends after its first k
\* operations (the connection drops, the process dies): `order` lists the
\* documents of the updateOne operations in the order of bulkOps, `after` is the
\* catalog the whole write would leave.
BulkWritePrefix(before, after, order, k) ==
  [m \in DOMAIN before |->
     IF \E i \in 1..Min(k, Len(order)) : order[i] = m THEN after[m] ELSE before[m]]

\* reorderMoviesInPage whose bulk write ends after k operations; the write's
\* exception leaves the handler and the request is answered with status 500.
reorderMoviesInPageInterruptedResult(ms, pageNumber, orderedIds, k) ==
  LET whole == reorderMoviesInPageResult(ms, pageNumber, orderedIds, <<>>)
  IN IF whole.res.status # 200 \/ k >= Len(orderedIds) THEN whole
     ELSE Outcome(BulkWritePrefix(ensureOrderIndexes(ms), whole.movies, orderedIds, k),
                  Response("reorderMoviesInPage", 500), whole.writes)

\* moveMoviesToPage whose bulk write ends after k operations.
moveMoviesToPageInterruptedResults(ms, targetPage, movieIds, k) ==
  {IF whole.res.status # 200 \/ k >= Cardinality(DOMAIN ms) THEN whole
   ELSE LET newOrder == [i \in 1..Cardinality(DOMAIN ms) |->
                           CHOOSE m \in DOMAIN ms : whole.movies[m].orderIndex = i]
        IN [whole EXCEPT
              !.movies = BulkWritePrefix(ensureOrderIndexes(ms), whole.movies, newOrder, k),
              !.res = Response("moveMoviesToPage", 500)]
   : whole \in moveMoviesToPageResults(ms, targetPage, movieIds)}

reorderMoviesInPageInterrupted(pageNumber, orderedIds, k) ==
  LET out == reorderMoviesInPageInterruptedResult(movies, pageNumber, orderedIds, k)
  IN /\ out.res.status = 500
     /\ movies' = out.movies
     /\ res' = out.res
     /\ UNCHANGED <<slugEpoch, now, providers, inflight>>

moveMoviesToPageInterrupted(targetPage, movieIds, k) ==
  \E out \in moveMoviesToPageInterruptedResults(movies, targetPage, movieIds, k) :
     /\ out.res.status = 500
     /\ movies' = out.movies
     /\ res' = out.res
     /\ UNCHANGED <<slugEpoch, now, providers, inflight>>

\* How many operations of a bulk write are applied before it ends.
Prefixes == 0..(MaxMovies - 1)

NextPartial ==
  \/ \E latest, previousHit \in BOOLEAN :
        createMovie(TheName, TheYear, latest, previousHit, TRUE)
  \/ \E page \in 1..MaxPage : \E orderedIds \in OrderedIdsInputs :
        reorderMoviesInPage(page, orderedIds, <<>>)
  \/ \E targetPage \in 1..MaxPage : \E movieIds \in SUBSET Ids :
        moveMoviesToPage(targetPage, movieIds)
  \/ \E page \in 1..MaxPage : \E orderedIds \in OrderedIdsInputs : \E k \in Prefixes :
        reorderMoviesInPageInterrupted(page, orderedIds, k)
  \/ \E targetPage \in 1..MaxPage : \E movieIds \in SUBSET Ids : \E k \in Prefixes :
        moveMoviesToPageInterrupted(targetPage, movieIds, k)

SpecPartial == InitEmpty /\ [][NextPartial]_vars

(***************************** C27 *****************************************)
\* The orderIndex values are pairwise distinct within the normal and within
\* the pinned partition.
DistinctInPartitions(ms) ==
  \A a, b \in DOMAIN ms :
     (a # b /\ ms[a].previousHit = ms[b].previousHit) =>
        ms[a].orderIndex # ms[b].orderIndex

\* The repair pass at the start of the next reorder or move leaves the
\* orderIndex values pairwise distinct within each partition.
HealedByRepair(out) ==
  out.res.status = 500 => DistinctInPartitions(ensureOrderIndexes(out.movies))

\* C27 as claimed: from a catalog with a valid total order, after a reorder or
\* move whose ordered bulk write was applied only up to some operation, the
\* repair pass that starts the next reorder or move call leaves the orderIndex
\* values pairwise distinct within each partition.
C27_RepairHealsPartialWrite ==
  (MissingOrderIndex(movies) = {} /\ DistinctInPartitions(movies)) =>
    /\ \A page \in 1..MaxPage : \A orderedIds \in OrderedIdsInputs : \A k \in Prefixes :
          HealedByRepair(reorderMoviesInPageInterruptedResult(movies, page, orderedIds, k))
    /\ \A targetPage \in 1..MaxPage : \A movieIds \in SUBSET Ids : \A k \in Prefixes :
          \A out \in moveMoviesToPageInterruptedResults(movies, targetPage, movieIds, k) :
             HealedByRepair(out)

\* What does hold: the repair pass leaves a catalog in which every item holds
\* an orderIndex as it is, whatever partial write came before.
C27_RepairSkipsCompleteCatalogs ==
  MissingOrderIndex(movies) = {} => ensureOrderIndexes(movies) = movies

(***************************** the credits lookup, step by step ************)
\* What one TMDb request comes back with: an entry, no entry, or an exception
\* (HTTP status not ok, timeout).
Found(id) == [kind |-> "match", id |-> id]
Nothing == [kind |-> "none", id |-> NoTmdbId]
Failure == [kind |-> "fail", id |-> NoTmdbId]

\* TMDb ids: the one an item may hold from an earlier match, and the one the
\* lookups find now.
StoredTmdbId == 7
FoundTmdbId == 8
TmdbIds == {StoredTmdbId, FoundTmdbId}

\* TMDb as the requests of one fetchTmdbCreditsForMovie call meet it:
\* /movie/{id}/credits per id, /find/{imdbId}, /search/movie with and without
\* the year.
Worlds ==
  [credits : [TmdbIds -> {"ok", "fail"}],
   find : {Nothing, Failure, Found(FoundTmdbId)},
   searchYear : {Nothing, Failure, Found(FoundTmdbId)},
   searchTitle : {Nothing, Failure, Found(FoundTmdbId)}]

\* /^tt\d{5,10}$/i.test(s) ? s : ''
normalizeImdbId(v) == IF v \in TitleIds THEN v ELSE NoImdbId

\* normalizeTitleForTmdb on names that carry no tag, no suffix token, no year
\* and no run of blanks inside: what is left is the trim of normalizeSpaces.
normalizeTitleForTmdb(name) == Trim(name)

\* numericYear || extractYearFromTitle(name) || null, on names without a year
YearUsed(year) == IF year > 1800 THEN year ELSE 0

\* The strategies, in the order of the code.
Strategies == <<"tmdbId", "imdb", "title+year", "title">>

\* The result object: found, tmdbId, casts, reason, and the strategies whose
\* request was sent, in order.
CreditsResult(found, tmdbId, casts, reason, tried) ==
  [NoAnswer EXCEPT !.found = found, !.tmdbId = tmdbId, !.casts = casts]
    @@ [reason |-> reason, tried |-> tried]

fetchTmdbCreditsForMovie(enabled, name, year, imdbId, tmdbId, world) ==
  LET titleUsed == normalizeTitleForTmdb(name)
      yearUsed == YearUsed(year)
      Miss(reason, tried) == CreditsResult(FALSE, NoTmdbId, <<>>, reason, tried)
      \* getCredits(id) and the return that follows it; an exception of the
      \* request goes to the catch block of the function
      Credits(id, reason, tried) ==
        IF world.credits[id] = "fail" THEN Miss("error", tried)
        ELSE CreditsResult(TRUE, id, <<"actor">>, reason, tried)
      ByTitle(tried) ==
        IF titleUsed = <<>> THEN Miss("not_found", tried)
        ELSE LET first == IF yearUsed # 0 THEN world.searchYear ELSE world.searchTitle
                 tried1 == Append(tried, IF yearUsed # 0 THEN "title+year" ELSE "title")
                 tried2 == Append(tried1, "title")
             IN IF first.kind = "fail" THEN Miss("error", tried1)
                ELSE IF first.kind = "match" THEN Credits(first.id, "ok_search", tried1)
                ELSE IF world.searchTitle.kind = "fail" THEN Miss("error", tried2)
                ELSE IF world.searchTitle.kind = "match"
                     THEN Credits(world.searchTitle.id, "ok_search", tried2)
                     ELSE Miss("not_found", tried2)
  IN IF ~enabled THEN Miss("missing_tmdb_key", <<>>)
     ELSE IF tmdbId # NoTmdbId THEN Credits(tmdbId, "ok_tmdbId", <<"tmdbId">>)
     ELSE IF normalizeImdbId(imdbId) # NoImdbId
          THEN IF world.find.kind = "fail" THEN Miss("error", <<"imdb">>)
               ELSE IF world.find.kind = "match"
                    THEN Credits(world.find.id, "ok_imdb", <<"imdb">>)
                    ELSE ByTitle(<<"imdb">>)
          ELSE ByTitle(<<>>)

\* fetchTmdbCreditsForMovie for a stored item, as ensureMovieTmdbCredits calls it.
fetchFor(movieDoc, enabled, world) ==
  fetchTmdbCreditsForMovie(enabled, movieDoc.name, movieDoc.year, movieDoc.imdbId,
                           movieDoc.tmdbId, world)

\* POST /api/tmdb/sync for one id: the credits of the item are refreshed from
\* what TMDb answers, and the item is saved.
syncTmdbCreditsAdmin(id, force, world) ==
  /\ IF ~providers.tmdb
     THEN /\ res' = Response("syncTmdbCreditsAdmin", 400)
          /\ UNCHANGED movies
     ELSE /\ res' = Response("syncTmdbCreditsAdmin", 200)
          /\ movies' = [m \in DOMAIN movies |->
                          IF m = id
                          THEN ensureMovieTmdbCredits(movies[m], now, providers.tmdb, force,
                                  fetchFor(movies[m], providers.tmdb, world)).doc
                          ELSE movies[m]]
  /\ UNCHANGED <<slugEpoch, now, providers, inflight>>

\* One item, stored by bulkCreateMovies with or without an imdbId, with or
\* without a year, under a name or under blanks only.
InitCascade ==
  /\ \E imdbId \in EnrichImdbIds : \E year \in {0, TheYear} : \E name \in {TheName, <<" ">>} :
        movies = [m \in {1} |->
                    [bulkCreateMoviesResult(<<>>, <<BulkItem(name, year, FALSE, FALSE, TRUE)>>)
                       .movies[m] EXCEPT !.imdbId = imdbId]]
  /\ res = Response("init", 0)
  /\ slugEpoch = [m \in DOMAIN movies |-> 0]
  /\ now = 1
  /\ providers \in [tmdb : BOOLEAN, omdb : BOOLEAN]
  /\ inflight = <<>>

NextCascade ==
  \/ \E id \in EnrichIds : \E force \in BOOLEAN : \E world \in Worlds :
        syncTmdbCreditsAdmin(id, force, world)
  \/ \E id \in EnrichIds : \E name \in EnrichNames :
        updateMovie(id, name, 0, Undefined, Undefined, Undefined)
  \/ Tick

SpecCascade == InitCascade /\ [][NextCascade]_vars

(***************************** C28 *****************************************)
\* Whether the strategy, asked on its own, would come back with the credits of
\* a match.
Yields(strategy, movieDoc, world) ==
  LET Hit(answer) == answer.kind = "match" /\ world.credits[answer.id] = "ok"
      titled == normalizeTitleForTmdb(movieDoc.name) # <<>>
  IN CASE strategy = "tmdbId" ->
            movieDoc.tmdbId # NoTmdbId /\ world.credits[movieDoc.tmdbId] = "ok"
       [] strategy = "imdb" ->
            normalizeImdbId(movieDoc.imdbId) # NoImdbId /\ Hit(world.find)
       [] strategy = "title+year" ->
            titled /\ YearUsed(movieDoc.year) # 0 /\ Hit(world.searchYear)
       [] strategy = "title" -> titled /\ Hit(world.searchTitle)

\* C28 as claimed: the lookup is found whenever at least one of its strategies
\* (direct id, IMDb id, title and year, title only) would yield a match: a
\* strategy without match or with a failure hands over to the next one.
C28_FoundWhenAnyStrategyMatches ==
  providers.tmdb =>
    \A m \in DOMAIN movies : \A world \in Worlds :
       (\E i \in 1..Len(Strategies) : Yields(Strategies[i], movies[m], world))
         => fetchFor(movies[m], TRUE, world).found

\* s is t with some of its elements left out.
IsSubsequence(s, t) ==
  \E f \in [1..Len(s) -> 1..Len(t)] :
     /\ \A i \in 1..Len(s) : t[f[i]] = s[i]
     /\ \A i, j \in 1..Len(s) : i < j => f[i] < f[j]

\* The requests a lookup for the item can send, in order: without a year the
\* search with the year is a search by title only, sent a second time when it
\* finds nothing.
RequestOrder(movieDoc) ==
  IF YearUsed(movieDoc.year) # 0 THEN Strategies
  ELSE <<"tmdbId", "imdb", "title", "title">>

\* What does hold: requests go out in the fixed order; the lookup stops at the
\* first strategy that matches; a strategy without match hands over to the
\* next; the first request that fails ends the lookup without a result; and a
\* stored TMDb id is the only strategy tried.
C28_CascadeUntilFirstFailure ==
  providers.tmdb =>
    \A m \in DOMAIN movies : \A world \in Worlds :
       LET answer == fetchFor(movies[m], TRUE, world)
           last == answer.tried[Len(answer.tried)]
       IN /\ IsSubsequence(answer.tried, RequestOrder(movies[m]))
          /\ answer.found =>
               /\ Yields(last, movies[m], world)
               /\ \A i \in 1..(Len(answer.tried) - 1) :
                     ~Yields(answer.tried[i], movies[m], world)
          /\ answer.reason # "error" =>
               (answer.found <=>
                  \E i \in 1..Len(Strategies) : Yields(Strategies[i], movies[m], world))
          /\ movies[m].tmdbId # NoTmdbId => answer.tried = <<"tmdbId">>

(***************************** reorder calls that overlap ******************)
\* The catalog as it was when the first of the calls on record started.
BaseOf(calls, ms) ==
  IF DOMAIN calls = {} THEN ms ELSE calls[CHOOSE d \in DOMAIN calls : TRUE].base

\* reorderMoviesInPage up to its bulk write: validation, the repair pass, the
\* page read from the store as it is now, and bulkOps built from the page's
\* orderIndex values.
reorderMoviesInPageRead(c, pageNumber, orderedIds) ==
  /\ c \notin DOMAIN inflight
  /\ LET page == Max(1, pageNumber)
         repaired == ensureOrderIndexes(movies)
         pageDocs == PageDocs(repaired, adminBaseFilter(repaired, <<>>), page)
         slotOrderIndexes ==
           SortNumbers([i \in 1..Len(pageDocs) |-> repaired[pageDocs[i]].orderIndex])
     IN IF orderedIds = <<>> \/ ~IsInjective(orderedIds)
        THEN /\ res' = Response("reorderMoviesInPage", 400)
             /\ UNCHANGED <<movies, inflight>>
        ELSE IF ReorderValidation(repaired, orderedIds, page, <<>>) # "ok"
        THEN /\ res' = Response("reorderMoviesInPage", 400)
             /\ movies' = repaired
             /\ UNCHANGED inflight
        ELSE /\ movies' = repaired
             /\ inflight' = With(inflight, c,
                   [op |-> "reorderMoviesInPage", step |-> "write",
                    page |-> page, orderedIds |-> orderedIds,
                    bulkOps |-> [i \in 1..Len(orderedIds) |->
                                   [id |-> orderedIds[i],
                                    orderIndex |-> slotOrderIndexes[i]]],
                    next |-> 1,
                    base |-> BaseOf(inflight, repaired),
                    overlap |-> \E d \in DOMAIN inflight : inflight[d].step # "done"])
             /\ UNCHANGED res
  /\ UNCHANGED <<slugEpoch, now, providers>>

\* The next updateOne of the call's ordered bulk write; the write runs in no
\* transaction, so the operations of another call's write can come in between.
\* After the last one the call answers.
reorderMoviesInPageWrite(c) ==
  /\ c \in DOMAIN inflight
  /\ inflight[c].op = "reorderMoviesInPage"
  /\ inflight[c].step = "write"
  /\ LET call == inflight[c]
         operation == call.bulkOps[call.next]
     IN /\ movies' = [movies EXCEPT ![operation.id].orderIndex = operation.orderIndex]
        /\ IF call.next = Len(call.bulkOps)
           THEN /\ inflight' = With(inflight, c, [call EXCEPT !.step = "done"])
                /\ res' = Response("reorderMoviesInPage", 200)
           ELSE /\ inflight' = With(inflight, c, [call EXCEPT !.next = @ + 1])
                /\ UNCHANGED res
  /\ UNCHANGED <<slugEpoch, now, providers>>

\* A catalog is built, then reorder calls run, one after the other or at once.
NextReorderRace ==
  \/ \E latest, previousHit \in BOOLEAN :
        inflight = <<>> /\ createMovie(TheName, TheYear, latest, previousHit, TRUE)
  \/ \E c \in Calls : \E page \in 1..MaxPage : \E orderedIds \in OrderedIdsInputs :
        reorderMoviesInPageRead(c, page, orderedIds)
  \/ \E c \in Calls : reorderMoviesInPageWrite(c)

SpecReorderRace == InitEmpty /\ [][NextReorderRace]_vars

(***************************** C29 *****************************************)
\* Both calls have answered, and they were reorders of the same page.
BothReordersDone ==
  /\ DOMAIN inflight = Calls
  /\ \A c \in Calls : inflight[c].op = "reorderMoviesInPage" /\ inflight[c].step = "done"
  /\ \A c, d \in Calls : inflight[c].page = inflight[d].page

\* The catalog after call `first` and then call `second`, each run as a whole.
OneAfterTheOther(base, first, second) ==
  reorderMoviesInPageResult(
    reorderMoviesInPageResult(base, first.page, first.orderedIds, <<>>).movies,
    second.page, second.orderedIds, <<>>).movies

\* C29 as claimed: whatever the interleaving of two reorders of one page, the
\* catalog they leave is the one left by the two calls run one after the other
\* in some order, and the page's items hold a permutation of the orderIndex
\* values the page held at the start.
C29_ConcurrentReordersSerialize ==
  BothReordersDone =>
    LET base == BaseOf(inflight, movies)
        onPage == Range(inflight[1].orderedIds) \cup Range(inflight[2].orderedIds)
    IN /\ \/ movies = OneAfterTheOther(base, inflight[1], inflight[2])
          \/ movies = OneAfterTheOther(base, inflight[2], inflight[1])
       /\ BagOfIndexes(movies, onPage) = BagOfIndexes(base, onPage)

\* What does hold: two reorders of which the second starts after the first has
\* answered leave what the two calls leave one after the other.
C29_SerialWhenNotOverlapping ==
  (BothReordersDone /\ \A c \in Calls : ~inflight[c].overlap) =>
    LET base == BaseOf(inflight, movies)
    IN \/ movies = OneAfterTheOther(base, inflight[1], inflight[2])
       \/ movies = OneAfterTheOther(base, inflight[2], inflight[1])

(***************************** a listing, query by query *******************)
\* baseFilter of the listing the call serves, on the store as it is now.
ListingBase(call, ms) ==
  IF call.op = "getMoviesAdmin" THEN adminBaseFilter(ms, <<>>)
  ELSE publicBaseFilter(ms, <<>>)

\* The items of the pinned partition.
Pinned(ms) == {m \in DOMAIN ms : ms[m].previousHit}

\* The call is taken up and Movie.countDocuments(normalFilter) is answered; the
\* call also notes which items were pinned at each of its range queries.
listingCountNormal(c, op, page) ==
  /\ c \notin DOMAIN inflight
  /\ inflight' = With(inflight, c,
        [op |-> op, step |-> "countPrevHit", page |-> page,
         normalCount |-> Cardinality(normalFilter(movies, ListingBase([op |-> op], movies))),
         totalCount |-> 0, movies |-> <<>>,
         atFindNormal |-> Pinned(movies), atFindPrevHit |-> Pinned(movies)])
  /\ UNCHANGED <<movies, res, slugEpoch, now, providers>>

\* Movie.countDocuments(prevHitFilter) is answered; the branch is chosen.
listingCountPrevHit(c) ==
  /\ c \in DOMAIN inflight
  /\ inflight[c].step = "countPrevHit"
  /\ LET call == inflight[c]
         skip == (call.page - 1) * REORDER_PAGE_LIMIT
         prevHitCount == Cardinality(prevHitFilter(movies, ListingBase(call, movies)))
     IN inflight' = With(inflight, c,
          [call EXCEPT !.totalCount = call.normalCount + prevHitCount,
                       !.step = IF skip < call.normalCount THEN "findNormal"
                                ELSE "findPrevHit"])
  /\ UNCHANGED <<movies, res, slugEpoch, now, providers>>

\* Movie.find(normalFilter).sort(sortLatest).skip(skip).limit(takeFromNormal)
\* is answered; the call answers when the page is full of normal items.
listingFindNormal(c) ==
  /\ c \in DOMAIN inflight
  /\ inflight[c].step = "findNormal"
  /\ LET call == inflight[c]
         limit == REORDER_PAGE_LIMIT
         skip == (call.page - 1) * limit
         takeFromNormal == Min(limit, call.normalCount - skip)
         takeFromPrevHits == limit - takeFromNormal
         normalSorted == SortByKey(normalFilter(movies, ListingBase(call, movies)),
                                   sortLatest(movies))
         normalMovies == SubSeqFrom(normalSorted, skip, takeFromNormal)
         found == [call EXCEPT !.movies = normalMovies,
                               !.atFindNormal = Pinned(movies),
                               !.atFindPrevHit = Pinned(movies)]
     IN IF takeFromPrevHits > 0
        THEN /\ inflight' = With(inflight, c, [found EXCEPT !.step = "findPrevHit"])
             /\ UNCHANGED res
        ELSE /\ inflight' = With(inflight, c, [found EXCEPT !.step = "done"])
             /\ res' = Response(call.op, 200)
  /\ UNCHANGED <<movies, slugEpoch, now, providers>>

\* Movie.find(prevHitFilter).sort(sortPrevHits) is answered, with
\* .limit(takeFromPrevHits) behind the normal items of a boundary page, with
\* .skip(adjustedSkip).limit(limit) on a page of pinned items; the call answers.
listingFindPrevHit(c) ==
  /\ c \in DOMAIN inflight
  /\ inflight[c].step = "findPrevHit"
  /\ LET call == inflight[c]
         limit == REORDER_PAGE_LIMIT
         skip == (call.page - 1) * limit
         prevHitSorted == SortByKey(prevHitFilter(movies, ListingBase(call, movies)),
                                    sortPrevHits(movies))
         listed ==
           IF skip < call.normalCount
           THEN call.movies
                  \o SubSeqFrom(prevHitSorted, 0,
                                limit - Min(limit, call.normalCount - skip))
           ELSE SubSeqFrom(prevHitSorted, skip - call.normalCount, limit)
     IN /\ inflight' = With(inflight, c,
             [call EXCEPT !.movies = listed, !.step = "done",
                          !.atFindNormal = IF skip < call.normalCount THEN @
                                           ELSE Pinned(movies),
                          !.atFindPrevHit = Pinned(movies)])
        /\ res' = Response(call.op, 200)
  /\ UNCHANGED <<movies, slugEpoch, now, providers>>

\* A catalog is built; then a listing is served query by query while
\* updateMovie calls change the flags of items.
NextListRace ==
  \/ \E previousHit \in BOOLEAN :
        inflight = <<>> /\ createMovie(TheName, TheYear, FALSE, previousHit, TRUE)
  \/ \E id \in Ids : \E previousHit \in {"true", "false"} :
        updateMovie(id, <<>>, 0, "false", previousHit, Undefined)
  \/ \E op \in {"getMovies", "getMoviesAdmin"} : \E page \in 1..MaxPage :
        listingCountNormal(1, op, page)
  \/ listingCountPrevHit(1)
  \/ listingFindNormal(1)
  \/ listingFindPrevHit(1)

SpecListRace == InitEmpty /\ [][NextListRace]_vars

(***************************** C30 *****************************************)
\* The listing calls that have answered.
ListingsDone ==
  {c \in DOMAIN inflight :
     inflight[c].op \in {"getMovies", "getMoviesAdmin"} /\ inflight[c].step = "done"}

\* C30 as claimed: the items of one getMovies or getMoviesAdmin response hold
\* no item twice, whatever writes run between the queries of the listing.
C30_NoDuplicateInResponse ==
  \A c \in ListingsDone : IsInjective(inflight[c].movies)

\* What does hold: a response holds no item twice when no item changed its
\* partition between the listing's two range queries, whatever was written
\* between the count queries and the range queries.
C30_NoDuplicateWhenRangesAgree ==
  \A c \in ListingsDone :
     inflight[c].atFindNormal = inflight[c].atFindPrevHit
       => IsInjective(inflight[c].movies)
=============================================================================
